---------------------------- MODULE Spec2Model ----------------------------
(***************************************************************************)
(* A model of the ChillyWallet signing core: the PSBT-lite interchange     *)
(* codec (src/utils/psbt.ts), the coin selector (bitcoinService.ts) and    *)
(* the transaction builder and address codec (utils/transaction.ts).       *)
(*                                                                         *)
(* Text is a sequence of code points, a byte string a sequence of 0..255.  *)
(* A JavaScript value is a tagged record: a number, a string, an array,    *)
(* an object (its properties in insertion order), null or undefined.  A    *)
(* property whose value is undefined is left out of the object, which is   *)
(* how JSON.stringify and a deep comparison treat it.                      *)
(***************************************************************************)
EXTENDS Integers, Sequences, FiniteSets, TLC

VARIABLES
    \* the transport between the watch device and the signer
    pc,        \* the step the transport between the two devices is at
    kind,      \* what the sending device holds: "psbt", "malformed", "signed"
    payload,   \* the envelope payload held by the sending device
    envelope,  \* the magic and the version written in front of the payload
    wire,      \* the string shown as one QR code
    parts,     \* the chunk array the receiving device has collected
    origin,    \* what made wire / parts: "serializePSBT", "foreign", "lossy", ...
    moves,     \* transport events on parts so far
    result,    \* what the decoding call returned or threw
    \* a send on the watch device
    sendPc,        \* the step the send is at
    walletUtxos,   \* the UTXOs of the wallet address, in fetch order
    amount,        \* the amount to send, in satoshis
    rate,          \* the fee rate, in satoshis per virtual byte
    selection,     \* what selectUTXOs returned
    emitted,       \* the outputs of the transaction the send path built
    again,         \* what a second selectUTXOs on the same list returned
    \* the transaction builder
    txPc,        \* the step the builder is at
    net,         \* "mainnet" or "testnet"
    addr,        \* the address given to addressToScriptPubKey
    scriptOut,   \* what addressToScriptPubKey returned or threw
    unsignedTx,  \* the unsigned transaction
    signedHex,   \* what signTransaction returned or threw
    \* the signing device
    sigPc,         \* the step the signing screen is at
    deviceNet,     \* the network the signing wallet is on
    request,       \* the arguments createUnsignedPSBT was called with
    created,       \* what createUnsignedPSBT returned or threw, or a foreign PSBT
    psbtData,      \* the string the signing screen was given
    reviewed,      \* what deserializePSBT made of it
    error,         \* the error the signing screen shows instead of the PSBT
    signing,       \* what a running handleSign captured when it was called
    signedTxHex,   \* what handleSign got from signTransaction
    qrData,        \* the envelope SignedTxDisplayScreen makes of the signed hex
    \* the calls to the blockchain data provider
    op,            \* the service operation the application called
    args,          \* its arguments
    call,          \* the BlockchainService method that awaits the provider
    http,          \* the request: "pending", "ok", "error status", "rejected", "aborted"
    timer,         \* the timer of fetchWithTimeout
    reply,         \* the body of the response
    feeFetch,      \* how the request for the fee estimates ended
    feeEstimates,  \* what getFeeEstimates returned to the operation
    fetched,       \* the UTXOs sendBitcoin got
    picked,        \* what selectUTXOs returned to sendBitcoin
    rawTx,         \* the transaction sendBitcoin built and signed
    returned,      \* what the operation returned or threw
    \* mnemonics and addresses
    keyPc,         \* the step the key operations are at
    secureRng,     \* whether crypto.getRandomValues is defined
    systemEntropy, \* what getSystemEntropy returned, and from which source
    minted,        \* what the mnemonic generator returned or threw
    keyArgs,       \* the arguments of deriveAddress
    derived,       \* what deriveAddress returned
    derivedAgain,  \* what the second call with the same arguments returned
    \* the wallet store
    store,           \* the state of useWalletStore
    keychain,        \* what the secure storage holds under the two storage keys
    currentNetwork,  \* the network bitcoinService is set to
    calls,           \* the asynchronous store actions that have not returned yet
    started,         \* how many store actions the application has called
    finished,        \* the action that returned in the last step, and how
    afterReset,      \* reset has returned while no createWallet or importWallet was
                     \* waiting, and neither they nor loadWallet were called since
    \* the network service
    subscription,    \* NetworkService.subscription: the NetInfo subscription, or null
    listeners,       \* NetworkService.listeners: the set of callbacks
    unsubscribes,    \* the functions subscribe has returned, in order
    netInfo          \* how many event listeners NetInfo holds

codecVars == <<pc, kind, payload, envelope, wire, parts, origin, moves, result>>
sendVars == <<sendPc, walletUtxos, amount, rate, selection, emitted, again>>
txVars == <<txPc, net, addr, scriptOut, unsignedTx, signedHex>>

signerVars == <<sigPc, deviceNet, request, created, psbtData, reviewed, error, signing,
                signedTxHex, qrData>>

onlineVars == <<op, args, call, http, timer, reply, feeFetch, feeEstimates, fetched, picked,
                rawTx, returned>>

keyVars == <<keyPc, secureRng, systemEntropy, minted, keyArgs, derived, derivedAgain>>

storeVars == <<store, keychain, currentNetwork, calls, started, finished, afterReset>>

netVars == <<subscription, listeners, unsubscribes, netInfo>>

\* The variables of the parts of the application added to the first three.
appVars == <<signerVars, onlineVars, keyVars, storeVars, netVars>>

\* What the actions of one part leave alone.
besideSigner == <<codecVars, sendVars, txVars, onlineVars, keyVars, storeVars, netVars>>
besideOnline == <<codecVars, sendVars, txVars, signerVars, keyVars, storeVars, netVars>>
besideKeys == <<codecVars, sendVars, txVars, signerVars, onlineVars, storeVars, netVars>>
besideStore == <<codecVars, sendVars, txVars, signerVars, onlineVars, keyVars, netVars>>
besideNet == <<codecVars, sendVars, txVars, signerVars, onlineVars, keyVars, storeVars>>

vars == <<codecVars, sendVars, txVars, appVars>>

-----------------------------------------------------------------------------
(* Characters                                                              *)

\* The printable ASCII characters 32..95 and 97..126.
PrintableLow ==
    " !\"#$%&'()*+,-./0123456789:;<=>?@ABCDEFGHIJKLMNOPQRSTUVWXYZ[\\]^_"

PrintableHigh == "abcdefghijklmnopqrstuvwxyz{|}~"

CharCode ==
    [c \in {SubSeq(PrintableLow, i, i) : i \in 1..Len(PrintableLow)}
            \cup {SubSeq(PrintableHigh, i, i) : i \in 1..Len(PrintableHigh)} |->
        IF \E i \in 1..Len(PrintableLow) : SubSeq(PrintableLow, i, i) = c
        THEN 31 + (CHOOSE i \in 1..Len(PrintableLow) : SubSeq(PrintableLow, i, i) = c)
        ELSE 96 + (CHOOSE i \in 1..Len(PrintableHigh) : SubSeq(PrintableHigh, i, i) = c)]

\* A sequence given as a function, as a tuple.
Tuple(f) == f \o <<>>

\* The code points of an ASCII string literal.
Str(s) == Tuple([i \in 1..Len(s) |-> CharCode[SubSeq(s, i, i)]])

IsDigit(c) == c >= 48 /\ c <= 57

\* The concatenation of a sequence of sequences (by halves, to keep the
\* evaluation shallow).
RECURSIVE Flatten(_)
Flatten(ss) ==
    IF ss = <<>> THEN <<>>
    ELSE IF Len(ss) = 1 THEN ss[1]
    ELSE Flatten(SubSeq(ss, 1, Len(ss) \div 2))
         \o Flatten(SubSeq(ss, (Len(ss) \div 2) + 1, Len(ss)))

\* The least index from i on whose character is in set, Len(s) + 1 if none.
Find(s, i, set) ==
    IF \E j \in i..Len(s) : s[j] \in set
    THEN CHOOSE j \in i..Len(s) : s[j] \in set /\ \A k \in i..(j - 1) : s[k] \notin set
    ELSE Len(s) + 1

RECURSIVE DecimalDigits(_)
DecimalDigits(n) ==
    IF n < 10 THEN <<48 + n>> ELSE Append(DecimalDigits(n \div 10), 48 + (n % 10))

\* Number.prototype.toString for an integer.
NumberToString(n) == IF n < 0 THEN <<45>> \o DecimalDigits(0 - n) ELSE DecimalDigits(n)

-----------------------------------------------------------------------------
(* JavaScript values                                                       *)

Num(n) == [t |-> "num", v |-> n]
StrV(s) == [t |-> "str", v |-> s]
Arr(a) == [t |-> "arr", v |-> a]
Obj(m) == [t |-> "obj", v |-> m]
JNull == [t |-> "null"]
Undefined == [t |-> "undefined"]

HasKey(o, k) == o.t = "obj" /\ \E i \in 1..Len(o.v) : o.v[i][1] = k

\* o.k for a value that is neither null nor undefined: a missing property,
\* and any property of a number, string or array that the code reads here,
\* is undefined.
Get(o, k) ==
    IF HasKey(o, k)
    THEN o.v[CHOOSE i \in 1..Len(o.v) : o.v[i][1] = k][2]
    ELSE Undefined

\* Reading a property of null or undefined throws a TypeError.
Nullish(x) == x.t \in {"null", "undefined"}

\* Object literal {k1: v1, ...}; an undefined value leaves the key out.
RECURSIVE Literal(_)
Literal(kvs) ==
    IF kvs = <<>> THEN <<>>
    ELSE IF Head(kvs)[2].t = "undefined" THEN Literal(Tail(kvs))
    ELSE <<Head(kvs)>> \o Literal(Tail(kvs))

-----------------------------------------------------------------------------
(* JSON.stringify                                                          *)

\* A string literal: the quote and the backslash are escaped.  Control
\* characters do not occur in the strings of the model.
RECURSIVE Quote(_)
Quote(s) ==
    LET j == Find(s, 1, {34, 92}) IN
    IF j > Len(s) THEN s
    ELSE SubSeq(s, 1, j - 1) \o <<92, s[j]>> \o Quote(SubSeq(s, j + 1, Len(s)))

RECURSIVE JSONstringify(_)
RECURSIVE StringifyItems(_)
RECURSIVE StringifyMembers(_)

StringifyItems(a) ==
    IF a = <<>> THEN <<>>
    ELSE JSONstringify(Head(a))
         \o (IF Len(a) > 1 THEN <<44>> ELSE <<>>) \o StringifyItems(Tail(a))

StringifyMembers(m) ==
    IF m = <<>> THEN <<>>
    ELSE <<34>> \o Quote(Head(m)[1]) \o <<34, 58>> \o JSONstringify(Head(m)[2])
         \o (IF Len(m) > 1 THEN <<44>> ELSE <<>>) \o StringifyMembers(Tail(m))

JSONstringify(x) ==
    CASE x.t = "num" -> NumberToString(x.v)
      [] x.t = "str" -> <<34>> \o Quote(x.v) \o <<34>>
      [] x.t = "arr" -> <<91>> \o StringifyItems(x.v) \o <<93>>
      [] x.t = "obj" -> <<123>> \o StringifyMembers(x.v) \o <<125>>
      [] OTHER -> Str("null")

-----------------------------------------------------------------------------
(* TextEncoder / TextDecoder and @scure/base base64                        *)

\* The strings of the model are ASCII, so UTF-8 writes one byte per character.
TextEncode(s) == s

\* A byte above 127 that starts no valid sequence decodes to U+FFFD; the
\* model decodes every such byte to U+FFFD.
TextDecode(bytes) ==
    Tuple([i \in 1..Len(bytes) |-> IF bytes[i] < 128 THEN bytes[i] ELSE 65533])

Base64Alphabet ==
    Str("ABCDEFGHIJKLMNOPQRSTUVWXYZabcdefghijklmnopqrstuvwxyz0123456789+/")

Base64Pad == 61

Pow64(k) == CASE k = 0 -> 1 [] k = 1 -> 64 [] k = 2 -> 4096 [] OTHER -> 262144

ByteAt(bytes, i) == IF i <= Len(bytes) THEN bytes[i] ELSE 0

\* base64.encode: three bytes make four characters; the last group is padded.
Base64Encode(bytes) ==
    LET n == Len(bytes)
        groups == (n + 2) \div 3
        char(j) ==
            LET g == (j - 1) \div 4
                pos == (j - 1) % 4
                left == n - 3 * g
                val == ByteAt(bytes, 3 * g + 1) * 65536
                       + ByteAt(bytes, 3 * g + 2) * 256 + ByteAt(bytes, 3 * g + 3)
            IN IF (pos = 2 /\ left < 2) \/ (pos = 3 /\ left < 3)
               THEN Base64Pad
               ELSE Base64Alphabet[((val \div Pow64(3 - pos)) % 64) + 1]
    IN Tuple([j \in 1..(4 * groups) |-> char(j)])

\* The value of a character of the alphabet, -1 for any other character.
Base64Table ==
    Tuple([c \in 1..128 |->
        IF \E k \in 1..64 : Base64Alphabet[k] = c - 1
        THEN (CHOOSE k \in 1..64 : Base64Alphabet[k] = c - 1) - 1
        ELSE -1])

Base64Value(c) == IF c >= 0 /\ c < 128 THEN Base64Table[c + 1] ELSE -1

\* base64.decode: strict.  The length is a multiple of four, padding stands
\* only at the end of the last group, every other character is of the
\* alphabet and the bits a padded group leaves over are zero.
Base64Decode(s) ==
    LET n == Len(s)
        pads == IF n >= 2 /\ s[n] = Base64Pad /\ s[n - 1] = Base64Pad THEN 2
                ELSE IF n >= 1 /\ s[n] = Base64Pad THEN 1 ELSE 0
        sextets == Tuple([i \in 1..n |-> IF i > n - pads THEN 0 ELSE Base64Value(s[i])])
        group(g) == sextets[4 * g + 1] * 262144 + sextets[4 * g + 2] * 4096
                    + sextets[4 * g + 3] * 64 + sextets[4 * g + 4]
        groups == Tuple([g \in 1..(n \div 4) |-> group(g - 1)])
        nbytes == 3 * (n \div 4) - pads
        wellFormed ==
            /\ n % 4 = 0
            /\ \A i \in 1..n : sextets[i] >= 0
            /\ pads = 1 => groups[n \div 4] % 256 = 0
            /\ pads = 2 => groups[n \div 4] % 65536 = 0
    IN IF ~wellFormed THEN [ok |-> FALSE]
       ELSE [ok |-> TRUE,
             bytes |-> Tuple([i \in 1..nbytes |->
                          (groups[((i - 1) \div 3) + 1] \div
                             (CASE (i - 1) % 3 = 0 -> 65536
                                [] (i - 1) % 3 = 1 -> 256
                                [] OTHER -> 1)) % 256])]

-----------------------------------------------------------------------------
(* JSON.parse                                                              *)
(* A parse step returns [ok |-> TRUE, v |-> value, at |-> next index] or   *)
(* SyntaxError.  Numbers are the integers; a fraction or an exponent is    *)
(* outside the texts of the model and reported apart (NotModelled).        *)

SyntaxError == [ok |-> FALSE, why |-> "syntax"]
NotModelled == [ok |-> FALSE, why |-> "not modelled"]

CharAt(s, i) == IF i >= 1 /\ i <= Len(s) THEN s[i] ELSE -1

IsSpace(c) == c \in {32, 9, 10, 13}

RECURSIVE SkipSpace(_, _)
SkipSpace(s, i) == IF IsSpace(CharAt(s, i)) THEN SkipSpace(s, i + 1) ELSE i

HexValue(c) ==
    IF IsDigit(c) THEN c - 48
    ELSE IF c >= 97 /\ c <= 102 THEN c - 87
    ELSE IF c >= 65 /\ c <= 70 THEN c - 55
    ELSE -1

\* The characters of a string literal from index i (after the opening
\* quote): plain characters up to the closing quote or the next escape.
RECURSIVE ParseChars(_, _, _)
ParseChars(s, i, acc) ==
    LET j == Find(s, i, {34, 92} \cup 0..31)
        c == CharAt(s, j)
        sofar == acc \o SubSeq(s, i, j - 1)
        e == CharAt(s, j + 1)
    IN
    IF c = 34 THEN [ok |-> TRUE, v |-> StrV(sofar), at |-> j + 1]
    ELSE IF c # 92 THEN SyntaxError
    ELSE IF e \in {34, 92, 47} THEN ParseChars(s, j + 2, Append(sofar, e))
    ELSE IF e = 98 THEN ParseChars(s, j + 2, Append(sofar, 8))
    ELSE IF e = 102 THEN ParseChars(s, j + 2, Append(sofar, 12))
    ELSE IF e = 110 THEN ParseChars(s, j + 2, Append(sofar, 10))
    ELSE IF e = 114 THEN ParseChars(s, j + 2, Append(sofar, 13))
    ELSE IF e = 116 THEN ParseChars(s, j + 2, Append(sofar, 9))
    ELSE IF e = 117 /\ \A k \in 2..5 : HexValue(CharAt(s, j + k)) >= 0
         THEN ParseChars(s, j + 6,
                  Append(sofar, HexValue(CharAt(s, j + 2)) * 4096
                                + HexValue(CharAt(s, j + 3)) * 256
                                + HexValue(CharAt(s, j + 4)) * 16
                                + HexValue(CharAt(s, j + 5))))
    ELSE SyntaxError

RECURSIVE ParseDigits(_, _, _)
ParseDigits(s, i, acc) ==
    IF IsDigit(CharAt(s, i)) THEN ParseDigits(s, i + 1, 10 * acc + (CharAt(s, i) - 48))
    ELSE [v |-> acc, at |-> i]

\* -? (0 | [1-9][0-9]*)
ParseNumber(s, i) ==
    LET neg == CharAt(s, i) = 45
        j == IF neg THEN i + 1 ELSE i
        d == IF CharAt(s, j) = 48 THEN [v |-> 0, at |-> j + 1] ELSE ParseDigits(s, j, 0)
    IN IF ~IsDigit(CharAt(s, j)) THEN SyntaxError
       ELSE IF CharAt(s, d.at) \in {46, 101, 69} THEN NotModelled
       ELSE [ok |-> TRUE, v |-> Num(IF neg THEN 0 - d.v ELSE d.v), at |-> d.at]

Matches(s, i, word) ==
    i + Len(word) - 1 <= Len(s) /\ SubSeq(s, i, i + Len(word) - 1) = word

\* Object.defineProperty semantics of a repeated key: the last value wins,
\* at the place of the first.
PutMember(m, k, x) ==
    IF \E i \in 1..Len(m) : m[i][1] = k
    THEN Tuple([i \in 1..Len(m) |-> IF m[i][1] = k THEN <<k, x>> ELSE m[i]])
    ELSE Append(m, <<k, x>>)

RECURSIVE ParseValue(_, _)
RECURSIVE ParseItems(_, _, _)
RECURSIVE ParseMembers(_, _, _)

\* After '[' or after a ',': one item, then ',' or ']'.
ParseItems(s, i, acc) ==
    LET r == ParseValue(s, i) IN
    IF ~r.ok THEN r
    ELSE LET j == SkipSpace(s, r.at) IN
         IF CharAt(s, j) = 44 THEN ParseItems(s, j + 1, Append(acc, r.v))
         ELSE IF CharAt(s, j) = 93
              THEN [ok |-> TRUE, v |-> Arr(Append(acc, r.v)), at |-> j + 1]
         ELSE SyntaxError

\* After '{' or after a ',': "key" : value, then ',' or '}'.
ParseMembers(s, i, acc) ==
    LET j == SkipSpace(s, i) IN
    IF CharAt(s, j) # 34 THEN SyntaxError
    ELSE LET k == ParseChars(s, j + 1, <<>>) IN
         IF ~k.ok THEN k
         ELSE LET c == SkipSpace(s, k.at) IN
              IF CharAt(s, c) # 58 THEN SyntaxError
              ELSE LET r == ParseValue(s, c + 1) IN
                   IF ~r.ok THEN r
                   ELSE LET e == SkipSpace(s, r.at)
                            m == PutMember(acc, k.v.v, r.v)
                        IN IF CharAt(s, e) = 44 THEN ParseMembers(s, e + 1, m)
                           ELSE IF CharAt(s, e) = 125
                                THEN [ok |-> TRUE, v |-> Obj(m), at |-> e + 1]
                           ELSE SyntaxError

ParseValue(s, i0) ==
    LET i == SkipSpace(s, i0)
        c == CharAt(s, i)
    IN CASE c = 123 ->
              LET j == SkipSpace(s, i + 1) IN
              IF CharAt(s, j) = 125 THEN [ok |-> TRUE, v |-> Obj(<<>>), at |-> j + 1]
              ELSE ParseMembers(s, j, <<>>)
         [] c = 91 ->
              LET j == SkipSpace(s, i + 1) IN
              IF CharAt(s, j) = 93 THEN [ok |-> TRUE, v |-> Arr(<<>>), at |-> j + 1]
              ELSE ParseItems(s, j, <<>>)
         [] c = 34 -> ParseChars(s, i + 1, <<>>)
         [] c = 45 \/ IsDigit(c) -> ParseNumber(s, i)
         [] c = 110 /\ Matches(s, i, Str("null")) ->
              [ok |-> TRUE, v |-> JNull, at |-> i + 4]
         [] c = 116 /\ Matches(s, i, Str("true")) ->
              [ok |-> TRUE, v |-> [t |-> "bool", v |-> TRUE], at |-> i + 4]
         [] c = 102 /\ Matches(s, i, Str("false")) ->
              [ok |-> TRUE, v |-> [t |-> "bool", v |-> FALSE], at |-> i + 5]
         [] OTHER -> SyntaxError

\* One value, and nothing but white space after it.
JSONparse(s) ==
    LET r == ParseValue(s, 1) IN
    IF ~r.ok THEN r
    ELSE IF SkipSpace(s, r.at) = Len(s) + 1 THEN r ELSE SyntaxError

-----------------------------------------------------------------------------
(* JavaScript operators the codec uses                                     *)

\* x === s for a string s
IsString(x, s) == x.t = "str" /\ x.v = s

\* !x
Falsy(x) ==
    \/ x.t \in {"undefined", "null"}
    \/ x.t = "num" /\ x.v = 0
    \/ x.t = "str" /\ x.v = <<>>
    \/ x.t = "bool" /\ ~x.v

\* ToNumber of a string of decimal digits with an optional sign; any other
\* non-empty string is NaN here.
StringToNumber(s) ==
    LET neg == CharAt(s, 1) = 45
        d == IF neg THEN Tail(s) ELSE s
    IN IF s = <<>> THEN [nan |-> FALSE, v |-> 0]
       ELSE IF d # <<>> /\ \A i \in 1..Len(d) : IsDigit(d[i])
            THEN [nan |-> FALSE,
                  v |-> IF neg THEN 0 - ParseDigits(d, 1, 0).v ELSE ParseDigits(d, 1, 0).v]
       ELSE [nan |-> TRUE, v |-> 0]

RECURSIVE ToNumber(_)
ToNumber(x) ==
    CASE x.t = "num" -> [nan |-> FALSE, v |-> x.v]
      [] x.t = "str" -> StringToNumber(x.v)
      [] x.t = "null" -> [nan |-> FALSE, v |-> 0]
      [] x.t = "bool" -> [nan |-> FALSE, v |-> IF x.v THEN 1 ELSE 0]
      [] x.t = "arr" /\ x.v = <<>> -> [nan |-> FALSE, v |-> 0]
      [] x.t = "arr" /\ Len(x.v) = 1 /\ x.v[1].t \in {"num", "str", "null", "arr"} ->
            IF x.v[1].t = "null" THEN [nan |-> FALSE, v |-> 0] ELSE ToNumber(x.v[1])
      [] OTHER -> [nan |-> TRUE, v |-> 0]

\* x > n for a number n: false when x is NaN.
\* A version check that also turns away the implemented version.
GreaterOrEqual(x, n) == ToNumber(x).nan = FALSE /\ ToNumber(x).v >= n

Greater(x, n) == LET a == ToNumber(x) IN ~a.nan /\ a.v > n

-----------------------------------------------------------------------------
(* src/utils/psbt.ts                                                       *)

K_magic == Str("magic")
K_version == Str("version")
K_data == Str("data")
K_inputs == Str("inputs")
K_outputs == Str("outputs")
K_network == Str("network")
K_fee == Str("fee")
K_changeIndex == Str("changeIndex")
K_txid == Str("txid")
K_vout == Str("vout")
K_value == Str("value")
K_scriptPubKey == Str("scriptPubKey")
K_address == Str("address")
K_txHex == Str("txHex")

Mainnet == Str("mainnet")
Testnet == Str("testnet")

PSBT_MAGIC == Str("CWPSBT")
PSBT_VERSION == 1

STX_MAGIC == Str("CWSTX")
STX_VERSION == 1

TXID_LENGTH == 64

\* A call returns a value or throws an Error with a message.
Return(x) == [ok |-> TRUE, value |-> x]
Throw(msg) == [ok |-> FALSE, error |-> msg]

TypeErrorMessage == "Cannot read properties of null or undefined"

\* The body of validatePSBT's loop over the inputs.
ValidateInput(input) ==
    IF Nullish(input) THEN TypeErrorMessage
    ELSE IF \/ Falsy(Get(input, K_txid))
            \/ Get(input, K_txid).t # "str"
            \/ Len(Get(input, K_txid).v) # TXID_LENGTH
         THEN "Invalid input txid"
    ELSE IF Get(input, K_vout).t # "num" \/ Get(input, K_vout).v < 0
         THEN "Invalid input vout"
    ELSE IF Get(input, K_value).t # "num" \/ Get(input, K_value).v <= 0
         THEN "Invalid input value"
    ELSE "ok"

\* The body of validatePSBT's loop over the outputs.
ValidateOutput(output) ==
    IF Nullish(output) THEN TypeErrorMessage
    ELSE IF Falsy(Get(output, K_address)) \/ Get(output, K_address).t # "str"
         THEN "Invalid output address"
    ELSE IF Get(output, K_value).t # "num" \/ Get(output, K_value).v < 0
         THEN "Invalid output value"
    ELSE "ok"

\* The message of the first item that fails, or "ok".
FirstError(msgs) ==
    IF \E i \in 1..Len(msgs) : msgs[i] # "ok"
    THEN msgs[CHOOSE i \in 1..Len(msgs) :
                 msgs[i] # "ok" /\ \A j \in 1..(i - 1) : msgs[j] = "ok"]
    ELSE "ok"

\* A validator that forgets the test for an empty input list.
validateWithoutInputCount(psbt) ==
    IF Nullish(psbt) THEN TypeErrorMessage
    ELSE IF Falsy(Get(psbt, K_outputs)) \/ Get(psbt, K_outputs).t # "arr"
            \/ Get(psbt, K_outputs).v = <<>>
         THEN "PSBT must have at least one output"
    ELSE IF ~(IsString(Get(psbt, K_network), Mainnet)
               \/ IsString(Get(psbt, K_network), Testnet))
         THEN "Invalid network in PSBT"
    ELSE "ok"

\* validatePSBT: the message of the Error it throws, or "ok".
validatePSBT(psbt) ==
    IF Nullish(psbt) THEN TypeErrorMessage
    ELSE LET inputs == Get(psbt, K_inputs)
             outputs == Get(psbt, K_outputs)
         IN
         IF Falsy(inputs) \/ inputs.t # "arr" \/ inputs.v = <<>>
         THEN "PSBT must have at least one input"
         ELSE IF Falsy(outputs) \/ outputs.t # "arr" \/ outputs.v = <<>>
         THEN "PSBT must have at least one output"
         ELSE IF ~(IsString(Get(psbt, K_network), Mainnet)
                    \/ IsString(Get(psbt, K_network), Testnet))
         THEN "Invalid network in PSBT"
         ELSE LET e == FirstError([i \in 1..Len(inputs.v) |-> ValidateInput(inputs.v[i])])
              IN IF e # "ok" THEN e
                 ELSE FirstError([i \in 1..Len(outputs.v) |-> ValidateOutput(outputs.v[i])])

\* The envelope {magic, version, data} as JSON, as UTF-8, as base64.
EncodeEnvelope(magic, version, data) ==
    Base64Encode(TextEncode(JSONstringify(
        Obj(Literal(<< <<K_magic, magic>>, <<K_version, version>>, <<K_data, data>> >>)))))

serializePSBT(psbt) == EncodeEnvelope(StrV(PSBT_MAGIC), Num(PSBT_VERSION), psbt)

\* What JSON.parse gave: the parsed value, or the SyntaxError it threw.
Parsed(j) ==
    IF ~j.ok THEN Throw(IF j.why = "syntax" THEN "invalid JSON" ELSE j.why)
    ELSE Return(j.v)

\* TextDecoder.decode and JSON.parse on what base64.decode gave.
DecodeJSON(b) ==
    IF ~b.ok THEN Throw("invalid base64") ELSE Parsed(JSONparse(TextDecode(b.bytes)))

\* base64.decode, TextDecoder.decode and JSON.parse; each may throw.
DecodeEnvelope(encoded) == DecodeJSON(Base64Decode(encoded))

\* The end of deserializePSBT: validatePSBT threw the message e, or did not.
ValidatedPSBT(psbt, e) ==
    IF e # "ok" THEN Throw("Failed to parse PSBT: " \o e) ELSE Return(psbt)

\* deserializePSBT from the parsed envelope d on.  The Unsupported-version
\* message ends with the version number, which is left out here.
CheckPSBT(d) ==
    IF ~d.ok THEN Throw("Failed to parse PSBT: " \o d.error)
    ELSE IF Nullish(d.value) THEN Throw("Failed to parse PSBT: " \o TypeErrorMessage)
    ELSE IF ~IsString(Get(d.value, K_magic), PSBT_MAGIC)
         THEN Throw("Failed to parse PSBT: Invalid PSBT format: magic mismatch")
    ELSE IF Greater(Get(d.value, K_version), PSBT_VERSION)
         THEN Throw("Failed to parse PSBT: Unsupported PSBT version")
    ELSE ValidatedPSBT(Get(d.value, K_data), validatePSBT(Get(d.value, K_data)))

deserializePSBT(encoded) == CheckPSBT(DecodeEnvelope(encoded))

serializeSignedTx(signedTx) == EncodeEnvelope(StrV(STX_MAGIC), Num(STX_VERSION), signedTx)

\* deserializeSignedTx from the parsed envelope d on.
CheckSignedTx(d) ==
    IF ~d.ok THEN Throw("Failed to parse signed transaction: " \o d.error)
    ELSE IF Nullish(d.value)
         THEN Throw("Failed to parse signed transaction: " \o TypeErrorMessage)
    ELSE IF ~IsString(Get(d.value, K_magic), STX_MAGIC)
         THEN Throw("Failed to parse signed transaction: Invalid signed transaction format")
    ELSE Return(Get(d.value, K_data))

deserializeSignedTx(encoded) == CheckSignedTx(DecodeEnvelope(encoded))

\* String.prototype.slice(from, to) with 0 <= from: the characters at the
\* 0-based positions from .. to - 1 that exist.
Slice(s, from, to) ==
    LET hi == IF to > Len(s) THEN Len(s) ELSE to
    IN IF from >= hi THEN <<>> ELSE SubSeq(s, from + 1, hi)

\* splitPSBT for an integer maxSize >= 1: part k (1-based) is the header
\* "k/n:" and the characters k*maxSize - maxSize .. k*maxSize - 1.
splitPSBT(psbt, maxSize) ==
    LET serialized == serializePSBT(psbt)
        n == (Len(serialized) + maxSize - 1) \div maxSize
    IN Tuple([k \in 1..n |->
           NumberToString(k) \o <<47>> \o NumberToString(n) \o <<58>>
           \o Slice(serialized, (k - 1) * maxSize, k * maxSize)])

\* String.prototype.indexOf(c), 0-based, -1 when c does not occur.
IndexOf(s, c) ==
    IF \E i \in 1..Len(s) : s[i] = c
    THEN (CHOOSE i \in 1..Len(s) : s[i] = c /\ \A j \in 1..(i - 1) : s[j] # c) - 1
    ELSE -1

\* a.split('/')[0]
BeforeSlash(s) == IF IndexOf(s, 47) < 0 THEN s ELSE Slice(s, 0, IndexOf(s, 47))

\* A chunk index read from its first digit alone.
parseFirstDigit(s) ==
    IF IsDigit(CharAt(s, 1)) THEN [nan |-> FALSE, v |-> CharAt(s, 1) - 48]
    ELSE [nan |-> TRUE, v |-> 0]

\* parseInt(s, 10): white space, a sign, then digits up to the first other
\* character; NaN when there is no digit.
parseInt(s) ==
    LET i == SkipSpace(s, 1)
        neg == CharAt(s, i) = 45
        j == IF CharAt(s, i) \in {43, 45} THEN i + 1 ELSE i
        d == ParseDigits(s, j, 0)
    IN IF ~IsDigit(CharAt(s, j)) THEN [nan |-> TRUE, v |-> 0]
       ELSE [nan |-> FALSE, v |-> IF neg THEN 0 - d.v ELSE d.v]

\* The comparator of reassemblePSBT; a NaN result counts as 0.
CompareParts(ka, kb) == IF ka.nan \/ kb.nan THEN 0 ELSE ka.v - kb.v

\* Array.prototype.sort with that comparator: stable.  Element i goes
\* behind every element that compares lower and every earlier element that
\* compares equal.
SortParts(ps) ==
    LET n == Len(ps)
        keys == Tuple([i \in 1..n |-> parseInt(BeforeSlash(ps[i]))])
        rank == Tuple([i \in 1..n |->
                    1 + Cardinality({j \in 1..n :
                            \/ CompareParts(keys[j], keys[i]) < 0
                            \/ CompareParts(keys[j], keys[i]) = 0 /\ j < i})])
    IN Tuple([p \in 1..n |-> ps[CHOOSE i \in 1..n : rank[i] = p]])

\* part.slice(part.indexOf(':') + 1)
PartData(part) == Slice(part, IndexOf(part, 58) + 1, Len(part))

\* reassemblePSBT on the sorted array.
reassemblePSBT(sortedParts) ==
    deserializePSBT(Flatten(Tuple([i \in 1..Len(sortedParts) |-> PartData(sortedParts[i])])))

-----------------------------------------------------------------------------
(* The payloads the devices exchange                                       *)

MaxInputs == 2
MaxOutputs == 2
MaxVersion == 2
MaxMoves == 2
MaxParts == 16

AddrMainnetP2WPKH == Str("bc1qw508d6qejxtdg4y5r3zarvary0c5xw7kv8f3t4")
AddrTestnetP2WPKH == Str("tb1qw508d6qejxtdg4y5r3zarvary0c5xw7kxpjzsx")

\* A transaction id: the hexadecimal digit of k, 64 times.
Txid(k) == Tuple([i \in 1..TXID_LENGTH |-> 96 + k])

InputValue(k) == 100000 * k
OutputValue(k) == 30000 + k

RECURSIVE Sum(_)
Sum(xs) == IF xs = <<>> THEN 0 ELSE Head(xs) + Sum(Tail(xs))

PSBTInputOf(k, withScript) ==
    Obj(Literal(<< <<K_txid, StrV(Txid(k))>>,
                   <<K_vout, Num(k - 1)>>,
                   <<K_value, Num(InputValue(k))>>,
                   <<K_scriptPubKey,
                     IF withScript
                     THEN StrV(Str("0014751e76e8199196d454941c45d1b3a323f1433bd6"))
                     ELSE Undefined>> >>))

PSBTOutputOf(k, network) ==
    Obj(<< <<K_address, StrV(IF network = Mainnet THEN AddrMainnetP2WPKH
                             ELSE AddrTestnetP2WPKH)>>,
           <<K_value, Num(OutputValue(k))>> >>)

\* A well-formed unsigned PSBT: the "plain" one is on mainnet and has only
\* the required fields, the "full" one is on testnet and has the optional
\* scriptPubKey and changeIndex.
UnsignedPSBTOf(nIn, nOut, full) ==
    Obj(Literal(<<
        <<K_version, Num(2)>>,
        <<K_inputs, Arr(Tuple([k \in 1..nIn |-> PSBTInputOf(k, full)]))>>,
        <<K_outputs, Arr(Tuple([k \in 1..nOut |->
                           PSBTOutputOf(k, IF full THEN Testnet ELSE Mainnet)]))>>,
        <<K_network, StrV(IF full THEN Testnet ELSE Mainnet)>>,
        <<K_fee, Num(Sum([k \in 1..nIn |-> InputValue(k)])
                     - Sum([k \in 1..nOut |-> OutputValue(k)]))>>,
        <<K_changeIndex, IF full THEN Num(nOut - 1) ELSE Undefined>> >>))

WellFormedPSBTs ==
    {UnsignedPSBTOf(nIn, nOut, full) :
        nIn \in 1..MaxInputs, nOut \in 1..MaxOutputs, full \in BOOLEAN}

\* o with property k set to x.
With(o, k, x) == Obj(PutMember(o.v, k, x))

\* Payloads validatePSBT has to reject.
MalformedPSBTs ==
    LET p == UnsignedPSBTOf(1, 1, FALSE) IN
    { With(p, K_inputs, Arr(<<>>)),
      With(p, K_outputs, Arr(<<>>)),
      With(p, K_network, StrV(Str("regtest"))) }

SignedTransactionOf(network) ==
    Obj(<< <<K_txHex, StrV(Str("02000000000101"))>>,
           <<K_txid, StrV(Txid(6))>>,
           <<K_network, StrV(network)>> >>)

SignedTransactions == {SignedTransactionOf(Mainnet), SignedTransactionOf(Testnet)}

Magics == {PSBT_MAGIC, STX_MAGIC, Str("psbt")}

ChunkSizes == {1, 40, 500}

-----------------------------------------------------------------------------
(* The transport between the watch device and the signer                   *)

NoResult == [ok |-> FALSE, error |-> "not called"]

NoEnvelope == [magic |-> <<>>, version |-> 0]

\* The transport at rest.
CodecIdle ==
    /\ pc = "off"
    /\ kind = "none"
    /\ payload = JNull
    /\ envelope = NoEnvelope
    /\ wire = <<>>
    /\ parts = <<>>
    /\ origin = "none"
    /\ moves = 0
    /\ result = NoResult

\* The signing device at rest.
\* null, where a value or an object is expected.
Null == [null |-> TRUE]

SignerIdle ==
    /\ sigPc = "off"
    /\ deviceNet = "none"
    /\ request = JNull
    /\ created = NoResult
    /\ psbtData = <<>>
    /\ reviewed = NoResult
    /\ error = Null
    /\ signing = Null
    /\ signedTxHex = NoResult
    /\ qrData = <<>>

\* No timer has been set.
NoTimer == [state |-> "none"]

\* The calls to the provider at rest.

OnlineIdle == /\ op = "off" /\ args = JNull /\ call = "none" /\ http = "none"
              /\ timer = NoTimer /\ reply = JNull /\ feeFetch = "none"
              /\ feeEstimates = NoResult /\ fetched = <<>> /\ picked = [null |-> TRUE]
              /\ rawTx = NoResult /\ returned = NoResult

\* The key operations at rest.
KeysIdle == /\ keyPc = "off" /\ secureRng = TRUE /\ systemEntropy = JNull
            /\ minted = NoResult /\ keyArgs = JNull /\ derived = NoResult
            /\ derivedAgain = NoResult

\* constants.ts NETWORKS.
NETWORKS ==
    [mainnet |-> [name |-> Str("Bitcoin Mainnet"), type |-> Mainnet,
                  addressPrefix |-> Str("bc1"), explorerUrl |-> Str("https://mempool.space")],
     testnet |-> [name |-> Str("Bitcoin Testnet"), type |-> Testnet,
                  addressPrefix |-> Str("tb1"),
                  explorerUrl |-> Str("https://mempool.space/testnet")]]

DEFAULT_NETWORK == NETWORKS.mainnet

\* walletStore.ts initialState.
initialState ==
    [isInitialized |-> FALSE,
     isLocked |-> TRUE,
     wallet |-> JNull,
     network |-> DEFAULT_NETWORK,
     transactions |-> <<>>,
     btcPrice |-> 0,
     priceChange24h |-> 0,
     isLoading |-> FALSE,
     error |-> JNull]

\* Nothing has returned in the last step.
NoneFinished == [name |-> "none", ok |-> TRUE]

\* The secure storage with nothing in it.
EmptyKeychain == [mnemonic |-> JNull, network |-> JNull]

\* The wallet store as created, no action called.
StoreIdle == /\ store = initialState /\ keychain = EmptyKeychain
             /\ currentNetwork = Mainnet /\ calls = <<>> /\ started = 0
             /\ finished = NoneFinished /\ afterReset = FALSE

\* The network service with no subscriber.
NetIdle == subscription = Null /\ listeners = {} /\ unsubscribes = <<>> /\ netInfo = 0

\* The parts of the application added to the first three, at rest.
AppIdle == SignerIdle /\ OnlineIdle /\ KeysIdle /\ StoreIdle /\ NetIdle

\* The send and the transaction builder at rest.
SendIdle ==
    /\ sendPc = "off"
    /\ walletUtxos = <<>>
    /\ amount = 0
    /\ rate = 0
    /\ selection = NoResult
    /\ emitted = <<>>
    /\ again = NoResult

TxIdle ==
    /\ txPc = "off"
    /\ net = "none"
    /\ addr = <<>>
    /\ scriptOut = NoResult
    /\ unsignedTx = NoResult
    /\ signedHex = NoResult

InitCodec ==
    /\ SendIdle
    /\ TxIdle
    /\ AppIdle
    /\ pc = "idle"
    /\ envelope = NoEnvelope
    /\ \/ kind = "psbt" /\ payload \in WellFormedPSBTs
       \/ kind = "malformed" /\ payload \in MalformedPSBTs
       \/ kind = "signed" /\ payload \in SignedTransactions
    /\ wire = <<>>
    /\ parts = <<>>
    /\ origin = "none"
    /\ moves = 0
    /\ result = NoResult

\* PSBTDisplayScreen shows serializePSBT(psbt) as one QR code.
SerializePSBT ==
    /\ pc = "idle" /\ kind = "psbt"
    /\ wire' = serializePSBT(payload)
    /\ envelope' = [magic |-> PSBT_MAGIC, version |-> PSBT_VERSION]
    /\ origin' = "serializePSBT"
    /\ pc' = "wire"
    /\ UNCHANGED <<kind, payload, parts, moves, result, sendVars, txVars, appVars>>

\* SignedTxDisplayScreen shows serializeSignedTx(signedTx) as one QR code.
SerializeSignedTx ==
    /\ pc = "idle" /\ kind = "signed"
    /\ wire' = serializeSignedTx(payload)
    /\ envelope' = [magic |-> STX_MAGIC, version |-> STX_VERSION]
    /\ origin' = "serializeSignedTx"
    /\ pc' = "wire"
    /\ UNCHANGED <<kind, payload, parts, moves, result, sendVars, txVars, appVars>>

\* A QR code written by another program or another version of this one: any
\* magic, any version, any payload.
ForeignEncode ==
    /\ pc = "idle"
    /\ \E magic \in Magics, version \in 0..MaxVersion :
          /\ wire' = EncodeEnvelope(StrV(magic), Num(version), payload)
          /\ envelope' = [magic |-> magic, version |-> version]
    /\ origin' = "foreign"
    /\ pc' = "wire"
    /\ UNCHANGED <<kind, payload, parts, moves, result, sendVars, txVars, appVars>>

\* SignTransactionScreen: the scanned string goes to deserializePSBT.
DeserializePSBT ==
    /\ pc = "wire"
    /\ result' = deserializePSBT(wire)
    /\ pc' = "deserializePSBT"
    /\ UNCHANGED <<kind, payload, envelope, wire, parts, origin, moves, sendVars, txVars, appVars>>

\* The watch device reads the signed transaction back.
DeserializeSignedTx ==
    /\ pc = "wire"
    /\ result' = deserializeSignedTx(wire)
    /\ pc' = "deserializeSignedTx"
    /\ UNCHANGED <<kind, payload, envelope, wire, parts, origin, moves, sendVars, txVars, appVars>>

\* An animated QR code: splitPSBT(psbt, maxSize).
SplitPSBT ==
    /\ pc = "idle" /\ kind = "psbt"
    /\ \E maxSize \in ChunkSizes : parts' = splitPSBT(payload, maxSize)
    /\ envelope' = [magic |-> PSBT_MAGIC, version |-> PSBT_VERSION]
    /\ origin' = "splitPSBT"
    /\ pc' = "parts"
    /\ UNCHANGED <<kind, payload, wire, moves, result, sendVars, txVars, appVars>>

\* The frames are scanned in any order: two neighbours change places, ...
SwapParts ==
    /\ pc = "parts" /\ moves < MaxMoves /\ Len(parts) <= MaxParts
    /\ \E i \in 1..(Len(parts) - 1) :
          parts' = [parts EXCEPT ![i] = parts[i + 1], ![i + 1] = parts[i]]
    /\ moves' = moves + 1
    /\ UNCHANGED <<pc, kind, payload, envelope, wire, origin, result, sendVars, txVars, appVars>>

\* ... the scan starts in the middle of the animation, ...
RotateParts ==
    /\ pc = "parts" /\ moves < MaxMoves /\ Len(parts) > 1
    /\ parts' = Append(Tail(parts), Head(parts))
    /\ moves' = moves + 1
    /\ UNCHANGED <<pc, kind, payload, envelope, wire, origin, result, sendVars, txVars, appVars>>

\* ... or the frames come last to first.
ReverseParts ==
    /\ pc = "parts" /\ moves < MaxMoves /\ Len(parts) > 1
    /\ parts' = Tuple([i \in 1..Len(parts) |-> parts[Len(parts) + 1 - i]])
    /\ moves' = moves + 1
    /\ UNCHANGED <<pc, kind, payload, envelope, wire, origin, result, sendVars, txVars, appVars>>

\* One frame of the animation is never scanned, and the scan ends.
LosePart ==
    /\ pc = "parts" /\ origin = "splitPSBT" /\ moves = 0
    /\ Len(parts) <= MaxParts
    /\ \E i \in 1..Len(parts) :
          parts' = SubSeq(parts, 1, i - 1) \o SubSeq(parts, i + 1, Len(parts))
    /\ origin' = "lossy"
    /\ pc' = "scanned"
    /\ UNCHANGED <<kind, payload, envelope, wire, moves, result, sendVars, txVars, appVars>>

\* A frame with the index of frame i and other data (that of frame j) is
\* scanned as well, and the scan ends.
ConflictingPart ==
    /\ pc = "parts" /\ origin = "splitPSBT" /\ moves = 0
    /\ Len(parts) <= MaxParts
    /\ \E i, j \in 1..Len(parts) :
          /\ PartData(parts[i]) # PartData(parts[j])
          /\ parts' = Append(parts,
                         Slice(parts[i], 0, IndexOf(parts[i], 58) + 1)
                         \o PartData(parts[j]))
    /\ origin' = "conflict"
    /\ pc' = "scanned"
    /\ UNCHANGED <<kind, payload, envelope, wire, moves, result, sendVars, txVars, appVars>>

\* reassemblePSBT(parts): the sort is in place.
ReassemblePSBT ==
    /\ pc \in {"parts", "scanned"}
    /\ parts' = SortParts(parts)
    /\ result' = reassemblePSBT(parts')
    /\ pc' = "reassemblePSBT"
    /\ UNCHANGED <<kind, payload, envelope, wire, origin, moves, sendVars, txVars, appVars>>

NextCodec ==
    \/ SerializePSBT
    \/ SerializeSignedTx
    \/ ForeignEncode
    \/ DeserializePSBT
    \/ DeserializeSignedTx
    \/ SplitPSBT
    \/ SwapParts
    \/ RotateParts
    \/ ReverseParts
    \/ LosePart
    \/ ConflictingPart
    \/ ReassemblePSBT

SpecCodec == InitCodec /\ [][NextCodec]_vars

-----------------------------------------------------------------------------
(* Properties of the interchange codec                                     *)

\* C1: what deserializePSBT makes of serializePSBT(p) is p, for every
\* well-formed unsigned PSBT p, and what deserializeSignedTx makes of
\* serializeSignedTx(s) is s, for every signed transaction s.
C1_RoundTrip ==
    /\ pc = "deserializePSBT" /\ origin = "serializePSBT" => result = Return(payload)
    /\ pc = "deserializeSignedTx" /\ origin = "serializeSignedTx"
          => result = Return(payload)

\* A PSBT with two inputs, two outputs and the optional fields has made the
\* round trip.
C1_Witness ==
    /\ pc = "deserializePSBT" /\ origin = "serializePSBT" /\ result.ok
    /\ Len(Get(payload, K_inputs).v) = 2
    /\ Len(Get(payload, K_outputs).v) = 2
    /\ HasKey(payload, K_changeIndex)

\* C2: reassemblePSBT gives back the PSBT that splitPSBT cut up, for every
\* chunk size and in whatever order the chunks stand in the array, also when
\* there are ten chunks or more.
C2_ChunkRoundTrip ==
    pc = "reassemblePSBT" /\ origin = "splitPSBT" => result = Return(payload)

\* Ten or more chunks, scanned out of order, have been put together again.
C2_Witness ==
    /\ pc = "reassemblePSBT" /\ origin = "splitPSBT" /\ result.ok
    /\ moves = 1
    /\ Len(parts) >= 10

\* C3: deserializePSBT returns a PSBT only for an envelope with the right
\* magic, a version it implements and a valid payload.  A wrong magic fails
\* with the magic-mismatch error, a version above PSBT_VERSION with the
\* unsupported-version error, an empty input list with the validation error;
\* a failure returns nothing.
C3_RejectsBadInput ==
    pc = "deserializePSBT" /\ origin \in {"serializePSBT", "foreign"} =>
        /\ envelope.magic # PSBT_MAGIC =>
              result = Throw("Failed to parse PSBT: Invalid PSBT format: magic mismatch")
        /\ envelope.magic = PSBT_MAGIC /\ envelope.version > PSBT_VERSION =>
              result = Throw("Failed to parse PSBT: Unsupported PSBT version")
        /\ /\ envelope.magic = PSBT_MAGIC
           /\ envelope.version <= PSBT_VERSION
           /\ Get(payload, K_inputs) = Arr(<<>>)
           => result = Throw("Failed to parse PSBT: PSBT must have at least one input")
        /\ result.ok => kind = "psbt" /\ result = Return(payload)

\* An envelope with the right magic and version and no input has been turned
\* away.
C3_Witness ==
    /\ pc = "deserializePSBT" /\ ~result.ok
    /\ envelope = [magic |-> PSBT_MAGIC, version |-> PSBT_VERSION]
    /\ Get(payload, K_inputs) = Arr(<<>>)

\* C4: no decoder returns the payload of an envelope whose version is above
\* the one it implements: deserializePSBT fails above PSBT_VERSION and
\* deserializeSignedTx fails above the version serializeSignedTx writes.
C4_TooNewFails ==
    /\ pc = "deserializePSBT" /\ envelope.version > PSBT_VERSION => ~result.ok
    /\ pc = "deserializeSignedTx" /\ envelope.version > STX_VERSION => ~result.ok

\* C5: reassemblePSBT returns a PSBT only when exactly the chunks 1..n are in
\* the array: it fails when a chunk is missing and when an index is there
\* twice with different data.
C5_RejectsIncomplete ==
    pc = "reassemblePSBT" /\ origin \in {"lossy", "conflict"} => ~result.ok

-----------------------------------------------------------------------------
(* src/services/bitcoinService.ts: coin selection and the send             *)

P2WPKH_INPUT_SIZE == 68
P2WPKH_OUTPUT_SIZE == 31
\* TX_OVERHEAD is 10.5 virtual bytes: sizes are counted in halves.
TX_OVERHEAD_HALVES == 21

DUST_LIMIT == 546

\* A transaction size rounded down.
TxSizeFloor(inputCount, outputCount) ==
    (TX_OVERHEAD_HALVES
       + 2 * (inputCount * P2WPKH_INPUT_SIZE + outputCount * P2WPKH_OUTPUT_SIZE)) \div 2

\* Math.ceil(TX_OVERHEAD + inputCount * P2WPKH_INPUT_SIZE
\*           + outputCount * P2WPKH_OUTPUT_SIZE)
TxSize(inputCount, outputCount) ==
    (TX_OVERHEAD_HALVES
       + 2 * (inputCount * P2WPKH_INPUT_SIZE + outputCount * P2WPKH_OUTPUT_SIZE)
       + 1) \div 2

\* A UTXO: txid stands for the 64 hexadecimal digits.
UTXO(txid, value) == [txid |-> txid, vout |-> 0, value |-> value]

\* The list in fetch order, not sorted.
FetchOrder(utxos) == utxos

\* [...utxos].sort((a, b) => b.value - a.value): stable, largest first.
SortByValue(utxos) ==
    LET n == Len(utxos)
        rank == Tuple([i \in 1..n |->
                    1 + Cardinality({j \in 1..n :
                            \/ utxos[j].value > utxos[i].value
                            \/ utxos[j].value = utxos[i].value /\ j < i})])
    IN Tuple([p \in 1..n |-> utxos[CHOOSE i \in 1..n : rank[i] = p]])

Selection(selectedUTXOs, fee, change) ==
    [null |-> FALSE, selectedUTXOs |-> selectedUTXOs, fee |-> fee, change |-> change]

\* A loop that gives up after the first UTXO.
RECURSIVE SelectFirstOnly(_, _, _, _, _)
SelectFirstOnly(sortedUTXOs, i, totalBefore, targetAmount, feeRate) ==
    IF i > 1 \/ i > Len(sortedUTXOs) THEN Null
    ELSE LET change == sortedUTXOs[i].value - targetAmount - feeRate * TxSize(i, 2)
         IN IF change >= 0
            THEN Selection(SubSeq(sortedUTXOs, 1, i), feeRate * TxSize(i, 2), change)
            ELSE Null

\* A loop that drops change below the dust limit instead of adding it to
\* the fee.
RECURSIVE SelectLoopDustLost(_, _, _, _, _)
SelectLoopDustLost(sortedUTXOs, i, totalBefore, targetAmount, feeRate) ==
    IF i > Len(sortedUTXOs) THEN Null
    ELSE LET totalInput == totalBefore + sortedUTXOs[i].value
             fee == feeRate * TxSize(i, 2)
             change == totalInput - targetAmount - fee
         IN IF change >= 0
            THEN IF change < DUST_LIMIT
                 THEN Selection(SubSeq(sortedUTXOs, 1, i), fee, 0)
                 ELSE Selection(SubSeq(sortedUTXOs, 1, i), fee, change)
            ELSE SelectLoopDustLost(sortedUTXOs, i + 1, totalInput, targetAmount, feeRate)

\* The loop of selectUTXOs from the i-th sorted UTXO on, totalBefore being
\* totalInput before it.
RECURSIVE SelectLoop(_, _, _, _, _)
SelectLoop(sortedUTXOs, i, totalBefore, targetAmount, feeRate) ==
    IF i > Len(sortedUTXOs) THEN Null
    ELSE LET totalInput == totalBefore + sortedUTXOs[i].value
             fee == feeRate * TxSize(i, 2)
             change == totalInput - targetAmount - fee
         IN IF change >= 0
            THEN IF change < DUST_LIMIT
                 THEN Selection(SubSeq(sortedUTXOs, 1, i), fee + change, 0)
                 ELSE Selection(SubSeq(sortedUTXOs, 1, i), fee, change)
            ELSE SelectLoop(sortedUTXOs, i + 1, totalInput, targetAmount, feeRate)

\* A list from which the loop has taken its first UTXO.
ShiftedUtxos(utxos) == IF utxos = <<>> THEN <<>> ELSE Tail(SortByValue(utxos))

\* The caller's array after selectUTXOs: [...utxos] is a copy, so that the
\* sort and the loop leave the array as it was.
CallerUtxos(utxos) == utxos

selectUTXOs(utxos, targetAmount, feeRate) ==
    SelectLoop(SortByValue(utxos), 1, 0, targetAmount, feeRate)

\* An output of the transaction being built.
Output(to, value) == [address |-> to, value |-> value]

\* The outputs buildAndSignTransaction gives to buildTransaction.
BuiltOutputs(toAddress, fromAddress, sendAmount, change) ==
    << Output(toAddress, sendAmount) >>
    \o (IF change > 0 THEN << Output(fromAddress, change) >> ELSE <<>>)

\* src/screens/SendScreen.tsx: the fee the screen shows for a rate.
TYPICAL_TX_SIZE == 140

DUST_THRESHOLD == 546

\* The loop of handleColdSign: the UTXOs in fetch order, up to the first
\* with which totalInput reaches totalSatoshis.
RECURSIVE GatherInputs(_, _, _, _)
GatherInputs(utxos, i, totalBefore, totalSatoshis) ==
    IF i > Len(utxos) THEN [inputs |-> utxos, totalInput |-> totalBefore]
    ELSE IF totalBefore + utxos[i].value >= totalSatoshis
         THEN [inputs |-> SubSeq(utxos, 1, i),
               totalInput |-> totalBefore + utxos[i].value]
    ELSE GatherInputs(utxos, i + 1, totalBefore + utxos[i].value, totalSatoshis)

\* The outputs handleColdSign gives to createUnsignedPSBT.
ColdOutputs(toAddress, walletAddress, amountSatoshis, change) ==
    << Output(toAddress, amountSatoshis) >>
    \o (IF change > DUST_THRESHOLD THEN << Output(walletAddress, change) >> ELSE <<>>)

-----------------------------------------------------------------------------
(* A send on the watch device                                              *)

MaxUtxos == 2

\* UTXO values around the points where, for 1000 satoshis at 5 sat/vB, the
\* change is 0, DUST_LIMIT or the screen's threshold.
UtxoValues == {10, 1704, 1705, 2000, 2246, 2247, 2250, 2251, 2252}

Amounts == {500, 1000}

\* FEE_LEVELS.low.rate and FEE_LEVELS.medium.rate
FeeRates == {5, 15}

RECURSIVE SeqsUpTo(_, _)
SeqsUpTo(S, n) ==
    IF n = 0 THEN {<<>>}
    ELSE SeqsUpTo(S, n - 1)
         \cup {Append(q, x) : q \in {r \in SeqsUpTo(S, n - 1) : Len(r) = n - 1}, x \in S}

\* The list getUTXOs returns: the i-th UTXO has txid i.
WalletUtxosOf(values) == Tuple([i \in 1..Len(values) |-> UTXO(i, values[i])])

Recipient == "recipient"
WalletAddress == "wallet"

InitSend ==
    /\ pc = "off"
    /\ kind = "none"
    /\ payload = JNull
    /\ envelope = NoEnvelope
    /\ wire = <<>>
    /\ parts = <<>>
    /\ origin = "none"
    /\ moves = 0
    /\ result = NoResult
    /\ TxIdle
    /\ AppIdle
    /\ sendPc = "start"
    /\ \E values \in SeqsUpTo(UtxoValues, MaxUtxos) : walletUtxos = WalletUtxosOf(values)
    /\ amount \in Amounts
    /\ rate \in FeeRates
    /\ selection = Null
    /\ emitted = <<>>
    /\ again = Null

\* bitcoinService.selectUTXOs(utxos, amount, feeRate)
SelectUTXOs ==
    /\ sendPc = "start"
    /\ selection' = selectUTXOs(walletUtxos, amount, rate)
    /\ walletUtxos' = CallerUtxos(walletUtxos)
    /\ sendPc' = "selected"
    /\ UNCHANGED <<amount, rate, emitted, again, codecVars, txVars, appVars>>

\* bitcoinService.selectUTXOs once more, on the list the first call was given.
SelectUTXOsAgain ==
    /\ sendPc = "selected"
    /\ again' = selectUTXOs(walletUtxos, amount, rate)
    /\ walletUtxos' = CallerUtxos(walletUtxos)
    /\ sendPc' = "selected again"
    /\ UNCHANGED <<amount, rate, selection, emitted, codecVars, txVars, appVars>>

\* bitcoinService.sendBitcoin with a valid recipient address, up to the
\* transaction it has built and signed.
SendBitcoin ==
    /\ sendPc = "start"
    /\ IF amount < DUST_LIMIT
       THEN sendPc' = "Amount too small" /\ UNCHANGED <<selection, emitted>>
       ELSE IF Len(walletUtxos) = 0
       THEN sendPc' = "No UTXOs available" /\ UNCHANGED <<selection, emitted>>
       ELSE /\ selection' = selectUTXOs(walletUtxos, amount, rate)
            /\ IF selection'.null
               THEN sendPc' = "Insufficient funds" /\ UNCHANGED emitted
               ELSE /\ emitted' = BuiltOutputs(Recipient, WalletAddress, amount,
                                               selection'.change)
                    /\ sendPc' = "broadcast"
    /\ UNCHANGED <<walletUtxos, amount, rate, again, codecVars, txVars, appVars>>

\* SendScreen.handleColdSign, up to the PSBT it shows.
HandleColdSign ==
    /\ sendPc = "start"
    /\ amount > 0
    /\ IF Len(walletUtxos) = 0
       THEN sendPc' = "No UTXOs available" /\ UNCHANGED <<selection, emitted>>
       ELSE /\ selection' = GatherInputs(walletUtxos, 1, 0, amount + rate * TYPICAL_TX_SIZE)
            /\ IF selection'.totalInput < amount + rate * TYPICAL_TX_SIZE
               THEN sendPc' = "Insufficient funds" /\ UNCHANGED emitted
               ELSE /\ emitted' = ColdOutputs(Recipient, WalletAddress, amount,
                                     selection'.totalInput - amount - rate * TYPICAL_TX_SIZE)
                    /\ sendPc' = "PSBTDisplay"
    /\ UNCHANGED <<walletUtxos, amount, rate, again, codecVars, txVars, appVars>>

NextSend ==
    \/ SelectUTXOs
    \/ SelectUTXOsAgain
    \/ SendBitcoin
    \/ HandleColdSign

SpecSend == InitSend /\ [][NextSend]_vars

-----------------------------------------------------------------------------
(* Properties of coin selection                                            *)

\* The sum of the values of the UTXOs with the indices in S.
RECURSIVE ValueOf(_, _)
ValueOf(utxos, S) ==
    IF S = {} THEN 0
    ELSE LET i == CHOOSE i \in S : TRUE IN utxos[i].value + ValueOf(utxos, S \ {i})

\* Spending the UTXOs in S pays for targetAmount and the fee of a transaction
\* with that many inputs and two outputs.
Covers(utxos, S, targetAmount, feeRate) ==
    ValueOf(utxos, S) >= targetAmount + feeRate * TxSize(Cardinality(S), 2)

\* C6: a change of 546 satoshis or less is never returned as change by
\* selectUTXOs and never becomes a change output of a send: every change
\* that is returned or emitted is above 546.
C6_NoDustChange ==
    /\ sendPc = "selected" /\ ~selection.null =>
          selection.change = 0 \/ selection.change > DUST_LIMIT
    /\ sendPc \in {"broadcast", "PSBTDisplay"} =>
          \A i \in 1..Len(emitted) :
              emitted[i].address = WalletAddress => emitted[i].value > DUST_LIMIT

\* C7 as stated: selectUTXOs returns null when all UTXOs together do not
\* cover targetAmount plus the fee of spending them, and a selection
\* otherwise.
C7_NullIffAllInsufficient ==
    sendPc = "selected" =>
        (selection.null <=>
            ~Covers(walletUtxos, 1..Len(walletUtxos), amount, rate))

\* C7, amended: selectUTXOs returns null exactly when no UTXOs of the list
\* cover targetAmount plus the fee of spending them (so for the empty list);
\* otherwise it returns a selection of UTXOs of the list whose value is
\* targetAmount plus the returned fee and change, the fee being at least the
\* one of a transaction with these inputs.
C7_NullIffNothingCovers ==
    sendPc = "selected" =>
        /\ selection.null <=>
              \A S \in SUBSET (1..Len(walletUtxos)) :
                  S = {} \/ ~Covers(walletUtxos, S, amount, rate)
        /\ ~selection.null =>
              /\ selection.selectedUTXOs # <<>>
              /\ \A i \in 1..Len(selection.selectedUTXOs) :
                    \E j \in 1..Len(walletUtxos) :
                        walletUtxos[j] = selection.selectedUTXOs[i]
              /\ ValueOf(selection.selectedUTXOs, 1..Len(selection.selectedUTXOs))
                    = amount + selection.fee + selection.change
              /\ selection.fee >= rate * TxSize(Len(selection.selectedUTXOs), 2)
              /\ selection.change >= 0

\* selectUTXOs has returned null for a wallet with two UTXOs.
C7_Witness ==
    /\ sendPc = "selected" /\ selection.null
    /\ Len(walletUtxos) = 2

-----------------------------------------------------------------------------
(* @scure/base bech32, as utils/transaction.ts uses it                     *)

BECH_ALPHABET == Str("qpzry9x8gf2tvdw0s3jn54khce6mua7l")

\* 0x3b6a57b2, 0x26508e6d, 0x1ea119fa, 0x3d4233dd, 0x2a1462b3
POLYMOD_GENERATORS == <<996825010, 642813549, 513874426, 1027748829, 705979059>>

\* The constant the bech32 checksum is xor-ed with (bech32m has 0x2bc830a3).
BECH32_CONST == 1

\* a ^ b for numbers below 2^bits.
RECURSIVE XorBits(_, _, _)
XorBits(a, b, bits) ==
    IF bits = 0 THEN 0
    ELSE ((a + b) % 2) + 2 * XorBits(a \div 2, b \div 2, bits - 1)

XorTable == Tuple([a \in 1..32 |-> Tuple([b \in 1..32 |-> XorBits(a - 1, b - 1, 5)])])

\* A number below 2^30 as its six 5-bit digits, the highest first.
Digits5(n) == Tuple([i \in 1..6 |-> (n \div (32 ^ (6 - i))) % 32])

\* a ^ b on two such numbers.
Xor30(a, b) == Tuple([i \in 1..6 |-> XorTable[a[i] + 1][b[i] + 1]])

GeneratorDigits == Tuple([i \in 1..5 |-> Digits5(POLYMOD_GENERATORS[i])])

\* The loop of bech32Polymod: chk ^= POLYMOD_GENERATORS[i] when bit i of b is
\* set, for i = from..4.
RECURSIVE XorGenerators(_, _, _)
XorGenerators(chk, b, from) ==
    IF from > 5 THEN chk
    ELSE XorGenerators(
             IF (b \div (2 ^ (from - 1))) % 2 = 1
             THEN Xor30(chk, GeneratorDigits[from]) ELSE chk,
             b, from + 1)

\* bech32Polymod(pre): b = pre >> 25, chk = (pre & 0x1ffffff) << 5.
bech32Polymod(pre) ==
    XorGenerators(<<pre[2], pre[3], pre[4], pre[5], pre[6], 0>>, pre[1], 1)

\* chk = bech32Polymod(chk) ^ v for every v of vs, from the i-th on.
RECURSIVE PolymodAll(_, _, _)
PolymodAll(chk, vs, i) ==
    IF Len(chk) = 6 /\ i <= Len(vs)
    THEN PolymodAll(Xor30(bech32Polymod(chk), <<0, 0, 0, 0, 0, vs[i]>>), vs, i + 1)
    ELSE chk

\* bechChecksum(prefix, words, encodingConst): the six checksum words.
bechChecksum(prefix, words, encodingConst) ==
    Xor30(PolymodAll(Digits5(1),
                     Tuple([i \in 1..Len(prefix) |-> prefix[i] \div 32]) \o <<0>>
                     \o Tuple([i \in 1..Len(prefix) |-> prefix[i] % 32])
                     \o words \o <<0, 0, 0, 0, 0, 0>>,
                     1),
          Digits5(encodingConst))

ToLowerCase(s) ==
    Tuple([i \in 1..Len(s) |-> IF s[i] \in 65..90 THEN s[i] + 32 ELSE s[i]])

ToUpperCase(s) ==
    Tuple([i \in 1..Len(s) |-> IF s[i] \in 97..122 THEN s[i] - 32 ELSE s[i]])

\* String.prototype.lastIndexOf(c), 0-based, -1 when c does not occur.
LastIndexOf(s, c) ==
    IF \E i \in 1..Len(s) : s[i] = c
    THEN (CHOOSE i \in 1..Len(s) : s[i] = c /\ \A j \in (i + 1)..Len(s) : s[j] # c) - 1
    ELSE -1

\* The 5-bit value of a character of BECH_ALPHABET.
AlphabetValue(c) == (CHOOSE i \in 1..32 : BECH_ALPHABET[i] = c) - 1

IsAlphabet(c) == \E i \in 1..32 : BECH_ALPHABET[i] = c

\* The end of decode: prefix and the decoded characters behind the "1".
CheckedWords(prefix, all, encodingConst) ==
    IF SubSeq(all, Len(all) - 5, Len(all))
          # bechChecksum(prefix, SubSeq(all, 1, Len(all) - 6), encodingConst)
    THEN Throw("Invalid checksum")
    ELSE Return([prefix |-> prefix, words |-> SubSeq(all, 1, Len(all) - 6)])

\* decode, from the lowered string and the place of its last "1" on.
DecodeLowered(str, sepIndex, encodingConst) ==
    IF sepIndex = 0 \/ sepIndex = -1
    THEN Throw("Letter 1 must be present between prefix and data only")
    ELSE IF Len(str) - sepIndex - 1 < 6
    THEN Throw("Data must be at least 6 characters long")
    ELSE IF \E i \in (sepIndex + 2)..Len(str) : ~IsAlphabet(str[i])
    THEN Throw("Unknown letter")
    ELSE CheckedWords(SubSeq(str, 1, sepIndex),
                      Tuple([i \in 1..(Len(str) - sepIndex - 1) |->
                                AlphabetValue(str[sepIndex + 1 + i])]),
                      encodingConst)

\* genBech32(encoding).decode(str) with the default limit of 90 characters.
BechDecode(str, encodingConst) ==
    IF Len(str) < 8 \/ Len(str) > 90 THEN Throw("Wrong string length")
    ELSE IF str # ToLowerCase(str) /\ str # ToUpperCase(str)
    THEN Throw("String must be lowercase or uppercase")
    ELSE DecodeLowered(ToLowerCase(str), LastIndexOf(ToLowerCase(str), 49), encodingConst)

\* bech32.decode
bech32_decode(str) == BechDecode(str, BECH32_CONST)

\* convertRadix2(data, 5, 8, false) from the i-th word on: carry holds the
\* pos bits not yet given out, res the bytes given out.
RECURSIVE ConvertRadix2(_, _, _, _, _)
ConvertRadix2(data, i, carry, pos, res) ==
    IF carry >= 0 /\ Len(res) >= 0 /\ i <= Len(data)
    THEN IF pos + 5 >= 8
         THEN ConvertRadix2(data, i + 1,
                            (carry * 32 + data[i]) % (2 ^ (pos + 5 - 8)),
                            pos + 5 - 8,
                            Append(res, (carry * 32 + data[i]) \div (2 ^ (pos + 5 - 8))))
         ELSE ConvertRadix2(data, i + 1, carry * 32 + data[i], pos + 5, res)
    ELSE IF pos >= 5 THEN Throw("Excess padding")
    ELSE IF (carry * (2 ^ (8 - pos))) % 256 # 0 THEN Throw("Non-zero padding")
    ELSE Return(res)

\* bech32.fromWords(words)
fromWords(words) == ConvertRadix2(words, 1, 0, 0, <<>>)

-----------------------------------------------------------------------------
(* src/utils/transaction.ts                                                *)

TX_VERSION == 2
SIGHASH_ALL == 1

StartsWith(s, p) == Len(s) >= Len(p) /\ SubSeq(s, 1, Len(p)) = p

Zeros(n) == Tuple([i \in 1..n |-> 0])

Reverse(s) == Tuple([i \in 1..Len(s) |-> s[Len(s) + 1 - i]])

\* new Uint8Array(size) with script[0] = first, script[1] = the length of the
\* program, and script.set(program, 2), which throws a RangeError when the
\* program does not fit.
ScriptOf(size, first, program) ==
    IF ~program.ok THEN Throw(program.error)
    ELSE IF 2 + Len(program.value) > size THEN Throw("offset is out of bounds")
    ELSE Return(<<first, Len(program.value)>> \o program.value
                \o Zeros(size - 2 - Len(program.value)))

\* decoded.words[0]: undefined, which a Uint8Array stores as 0, when there
\* is no word.
WitnessVersion(decoded) ==
    IF decoded.value.words = <<>> THEN 0 ELSE Head(decoded.value.words)

\* bech32.fromWords(decoded.words.slice(1))
WitnessProgram(decoded) ==
    fromWords(IF decoded.value.words = <<>> THEN <<>> ELSE Tail(decoded.value.words))

P2WPKH_SCRIPT_SIZE == 22
P2TR_SCRIPT_SIZE == 34
OP_1 == 81

\* The first branch of addressToScriptPubKey, from what bech32.decode gave.
NativeSegwitScript(decoded) ==
    IF ~decoded.ok THEN Throw(decoded.error)
    ELSE ScriptOf(P2WPKH_SCRIPT_SIZE, WitnessVersion(decoded), WitnessProgram(decoded))

\* The second branch of addressToScriptPubKey, from what bech32.decode gave.
TaprootScript(decoded) ==
    IF ~decoded.ok THEN Throw(decoded.error)
    ELSE ScriptOf(P2TR_SCRIPT_SIZE, OP_1, WitnessProgram(decoded))

\* network === 'mainnet' ? 'bc' : 'tb'
PrefixOf(network) == IF network = Mainnet THEN Str("bc") ELSE Str("tb")

\* addressToScriptPubKey(address, network): both branches call bech32.decode.
addressToScriptPubKey(address, network) ==
    IF StartsWith(address, PrefixOf(network) \o Str("1q"))
    THEN NativeSegwitScript(bech32_decode(address))
    ELSE IF StartsWith(address, PrefixOf(network) \o Str("1p"))
    THEN TaprootScript(bech32_decode(address))
    ELSE Throw("Unsupported address format")

\* parseInt(pair, 16) as a Uint8Array stores it: the hexadecimal digits the
\* pair starts with, NaN being stored as 0.
ParseHexPair(a, b) ==
    IF HexValue(a) < 0 THEN 0
    ELSE IF HexValue(b) < 0 THEN HexValue(a)
    ELSE 16 * HexValue(a) + HexValue(b)

hexToBytes(hex) ==
    Tuple([i \in 1..(Len(hex) \div 2) |-> ParseHexPair(hex[2 * i - 1], hex[2 * i])])

HexDigits == Str("0123456789abcdef")

bytesToHex(bytes) ==
    Tuple([i \in 1..(2 * Len(bytes)) |->
              IF i % 2 = 1 THEN HexDigits[(bytes[(i + 1) \div 2] \div 16) + 1]
              ELSE HexDigits[(bytes[i \div 2] % 16) + 1]])

\* uint32ToLE(value) for 0 <= value < 2^31
uint32ToLE(value) ==
    <<value % 256, (value \div 256) % 256, (value \div 65536) % 256,
      (value \div 16777216) % 256>>

\* uint32ToLE(0xffffffff)
SEQUENCE_FINAL == <<255, 255, 255, 255>>

\* uint64ToLE(value) for 0 <= value < 2^31: high is 0
uint64ToLE(value) == uint32ToLE(value) \o <<0, 0, 0, 0>>

\* encodeVarInt(value) for 0 <= value < 2^31
encodeVarInt(value) ==
    IF value < 253 THEN <<value>>
    ELSE IF value <= 65535 THEN <<253, value % 256, (value \div 256) % 256>>
    ELSE <<254>> \o uint32ToLE(value)

\* The private key 1, its compressed public key and the hash160 of that.
PrivateKey == Zeros(31) \o <<1>>

PublicKey ==
    hexToBytes(Str("0279be667ef9dcbbac55a06295ce870b07029bfcdb2dce28d959f2815b16f81798"))

PubKeyHash == hexToBytes(Str("751e76e8199196d454941c45d1b3a323f1433bd6"))

\* A checksum of the bytes lo..hi of data.
RECURSIVE Checksum(_, _, _)
Checksum(data, lo, hi) ==
    IF lo > hi THEN 0
    ELSE IF lo = hi THEN (data[lo] * ((lo % 251) + 1)) % 65521
    ELSE (Checksum(data, lo, (lo + hi) \div 2)
          + Checksum(data, (lo + hi) \div 2 + 1, hi)) % 65521

\* 32 bytes made from a checksum.
DigestOf(sum, length) ==
    Tuple([j \in 1..32 |-> ((sum * j) + length + (j * j)) % 256])

\* What stands for a hash function of the bytes data, salt telling the
\* functions apart: 32 bytes that the data determine.
HashOf(data, salt) == DigestOf(Checksum(data, 1, Len(data)) + salt, Len(data))

\* secp256k1.getPublicKey(privateKey, true) and hash160: the values of the
\* key 1; for another key, hash160 is 20 bytes that the key determines.
getPublicKey(privateKey) == PublicKey
hash160(publicKey) ==
    IF publicKey = PublicKey THEN PubKeyHash ELSE SubSeq(HashOf(publicKey, 160), 1, 20)

\* doubleSha256(data): SHA-256 is not computed; what stands for it is a
\* 32-byte value that the data determine.
doubleSha256(data) == DigestOf(Checksum(data, 1, Len(data)), Len(data))

\* A DER integer: a zero byte goes in front when the high bit is set.
DerInteger(x) ==
    IF x[1] >= 128 THEN <<2, Len(x) + 1, 0>> \o x ELSE <<2, Len(x)>> \o x

\* A DER sequence of two integers.
DerSignature(r, s) ==
    <<48, Len(DerInteger(r)) + Len(DerInteger(s))>> \o DerInteger(r) \o DerInteger(s)

\* secp256k1.sign(sigHash, privateKey).toDERRawBytes(): ECDSA is not
\* computed; what stands for (r, s) are 32-byte values that the hash
\* determines, s being in the lower half.
SignDER(sigHash, privateKey) ==
    DerSignature(sigHash, <<Head(Reverse(sigHash)) % 128>> \o Tail(Reverse(sigHash)))

\* typedArray.set(data, offset) within bounds
SetAt(buffer, data, offset) ==
    Tuple([k \in 1..Len(buffer) |->
              IF k > offset /\ k <= offset + Len(data) THEN data[k - offset]
              ELSE buffer[k]])

\* prevoutsData after the loop has run for the inputs i.., buffer being what
\* the earlier rounds left.
RECURSIVE PrevoutsData(_, _, _)
PrevoutsData(inputs, i, buffer) ==
    IF Len(buffer) >= 0 /\ i <= Len(inputs)
    THEN PrevoutsData(inputs, i + 1,
             SetAt(SetAt(buffer, Reverse(hexToBytes(inputs[i].txid)), (i - 1) * 36),
                   uint32ToLE(inputs[i].vout), (i - 1) * 36 + 32))
    ELSE buffer

\* prevoutsData.set(txidBytes, i * 36) throws a RangeError for some input.
PrevoutsOverflow(inputs) ==
    \E i \in 1..Len(inputs) :
        (i - 1) * 36 + (Len(inputs[i].txid) \div 2) > Len(inputs) * 36

\* sequenceData
SequenceData(inputs) == Flatten(Tuple([i \in 1..Len(inputs) |-> SEQUENCE_FINAL]))

\* outputsBuffer, scripts being the scriptPubKeys of the outputs.
OutputsBuffer(txOutputs, scripts) ==
    Flatten(Tuple([i \in 1..Len(txOutputs) |->
        uint64ToLE(txOutputs[i].value) \o <<Len(scripts[i].value)>> \o scripts[i].value]))

buildBIP143Preimage(version, hashPrevouts, hashSequence, txid, vout, pubKeyHash, value, sequence, hashOutputs, locktime) ==
    uint32ToLE(version) \o hashPrevouts \o hashSequence
    \o Reverse(hexToBytes(txid)) \o uint32ToLE(vout)
    \o <<25, 118, 169, 20>> \o pubKeyHash \o <<136, 172>>
    \o uint64ToLE(value) \o sequence \o hashOutputs
    \o uint32ToLE(locktime) \o uint32ToLE(SIGHASH_ALL)

\* The witness that the i-th round of the signing loop pushes.
WitnessOf(sigHash, privateKey) ==
    << SignDER(sigHash, privateKey) \o <<SIGHASH_ALL>>, getPublicKey(privateKey) >>

\* witnesses after the signing loop.
Witnesses(tx, privateKey, hashPrevouts, hashSequence, hashOutputs) ==
    Tuple([i \in 1..Len(tx.inputs) |->
        WitnessOf(doubleSha256(buildBIP143Preimage(
                      tx.version, hashPrevouts, hashSequence,
                      tx.inputs[i].txid, tx.inputs[i].vout,
                      hash160(getPublicKey(privateKey)),
                      tx.inputs[i].value, SEQUENCE_FINAL, hashOutputs, tx.locktime)),
                  privateKey)])

\* The scriptPubKey of every output, or what addressToScriptPubKey threw.
ScriptsOf(txOutputs, network) ==
    Tuple([i \in 1..Len(txOutputs) |-> addressToScriptPubKey(txOutputs[i].address, network)])

\* The first of the results that is a throw.
FirstThrow(results) ==
    results[CHOOSE i \in 1..Len(results) :
                ~results[i].ok /\ \A j \in 1..(i - 1) : results[j].ok]

SerializedInput(input) ==
    Reverse(hexToBytes(input.txid)) \o uint32ToLE(input.vout) \o <<0>> \o SEQUENCE_FINAL

SerializedOutput(output, scriptPubKey) ==
    uint64ToLE(output.value) \o encodeVarInt(Len(scriptPubKey)) \o scriptPubKey

SerializedWitness(witness) ==
    encodeVarInt(Len(witness))
    \o Flatten(Tuple([k \in 1..Len(witness) |->
                        encodeVarInt(Len(witness[k])) \o witness[k]]))

\* serializeTransaction, scripts being what addressToScriptPubKey gives for
\* the outputs in its loop.
SerializeWith(tx, witnesses, scripts) ==
    IF \E i \in 1..Len(scripts) : ~scripts[i].ok THEN FirstThrow(scripts)
    ELSE Return(bytesToHex(
        uint32ToLE(tx.version) \o <<0, 1>>
        \o encodeVarInt(Len(tx.inputs))
        \o Flatten(Tuple([i \in 1..Len(tx.inputs) |-> SerializedInput(tx.inputs[i])]))
        \o encodeVarInt(Len(tx.outputs))
        \o Flatten(Tuple([i \in 1..Len(tx.outputs) |->
                            SerializedOutput(tx.outputs[i], scripts[i].value)]))
        \o Flatten(Tuple([i \in 1..Len(witnesses) |-> SerializedWitness(witnesses[i])]))
        \o uint32ToLE(tx.locktime)))

serializeTransaction(tx, witnesses, network) ==
    SerializeWith(tx, witnesses, ScriptsOf(tx.outputs, network))

\* signTransaction from the hashOutputs loop on.
SignWith(tx, privateKey, network, scripts) ==
    IF \E i \in 1..Len(scripts) : ~scripts[i].ok THEN FirstThrow(scripts)
    ELSE serializeTransaction(
             tx,
             Witnesses(tx, privateKey,
                       doubleSha256(PrevoutsData(tx.inputs, 1, Zeros(Len(tx.inputs) * 36))),
                       doubleSha256(SequenceData(tx.inputs)),
                       doubleSha256(OutputsBuffer(tx.outputs, scripts))),
             network)

signTransaction(tx, privateKey, network) ==
    IF PrevoutsOverflow(tx.inputs) THEN Throw("offset is out of bounds")
    ELSE SignWith(tx, privateKey, network, ScriptsOf(tx.outputs, network))

buildTransaction(params) ==
    [version |-> TX_VERSION, inputs |-> params.inputs, outputs |-> params.outputs,
     locktime |-> 0, network |-> params.network]

-----------------------------------------------------------------------------
(* Reading a serialized segwit transaction back                            *)

Unparsable == [ok |-> FALSE]

\* The little-endian number in n bytes from pos on.
RECURSIVE ReadLE(_, _, _)
ReadLE(bytes, pos, n) ==
    IF n = 0 THEN 0 ELSE bytes[pos] + 256 * ReadLE(bytes, pos + 1, n - 1)

\* count inputs from pos on: outpoint, script, sequence.
RECURSIVE ParseInputs(_, _, _, _)
ParseInputs(bytes, pos, count, acc) ==
    IF count = 0 THEN [ok |-> TRUE, items |-> acc, next |-> pos]
    ELSE IF pos + 36 > Len(bytes) THEN Unparsable
    ELSE IF bytes[pos + 36] >= 253 THEN Unparsable
    ELSE IF pos + 36 + bytes[pos + 36] + 4 > Len(bytes) THEN Unparsable
    ELSE ParseInputs(bytes, pos + 37 + bytes[pos + 36] + 4, count - 1,
             Append(acc, [txid |-> bytesToHex(Reverse(SubSeq(bytes, pos, pos + 31))),
                          vout |-> ReadLE(bytes, pos + 32, 3),
                          voutHigh |-> bytes[pos + 35],
                          scriptSig |-> SubSeq(bytes, pos + 37, pos + 36 + bytes[pos + 36]),
                          sequence |-> SubSeq(bytes, pos + 37 + bytes[pos + 36],
                                              pos + 40 + bytes[pos + 36])]))

\* count outputs from pos on: value, script.
RECURSIVE ParseOutputs(_, _, _, _)
ParseOutputs(bytes, pos, count, acc) ==
    IF count = 0 THEN [ok |-> TRUE, items |-> acc, next |-> pos]
    ELSE IF pos + 8 > Len(bytes) THEN Unparsable
    ELSE IF bytes[pos + 8] >= 253 THEN Unparsable
    ELSE IF pos + 8 + bytes[pos + 8] > Len(bytes) THEN Unparsable
    ELSE ParseOutputs(bytes, pos + 9 + bytes[pos + 8], count - 1,
             Append(acc, [value |-> ReadLE(bytes, pos, 3),
                          valueHigh |-> SubSeq(bytes, pos + 3, pos + 7),
                          script |-> SubSeq(bytes, pos + 9, pos + 8 + bytes[pos + 8])]))

\* count stack items from pos on.
RECURSIVE ParseStack(_, _, _, _)
ParseStack(bytes, pos, count, acc) ==
    IF count = 0 THEN [ok |-> TRUE, items |-> acc, next |-> pos]
    ELSE IF pos > Len(bytes) THEN Unparsable
    ELSE IF bytes[pos] >= 253 THEN Unparsable
    ELSE IF pos + bytes[pos] > Len(bytes) THEN Unparsable
    ELSE ParseStack(bytes, pos + 1 + bytes[pos], count - 1,
             Append(acc, SubSeq(bytes, pos + 1, pos + bytes[pos])))

RECURSIVE ParseWitnesses(_, _, _, _)

StackParsed(bytes, stack, count, acc) ==
    IF ~stack.ok THEN Unparsable
    ELSE ParseWitnesses(bytes, stack.next, count - 1, Append(acc, stack.items))

\* count witness stacks from pos on.
ParseWitnesses(bytes, pos, count, acc) ==
    IF count = 0 THEN [ok |-> TRUE, items |-> acc, next |-> pos]
    ELSE IF pos > Len(bytes) THEN Unparsable
    ELSE IF bytes[pos] >= 253 THEN Unparsable
    ELSE StackParsed(bytes, ParseStack(bytes, pos + 1, bytes[pos], <<>>), count, acc)

WitnessesParsed(bytes, ins, outs, wits) ==
    IF ~wits.ok THEN Unparsable
    ELSE IF wits.next + 3 # Len(bytes) THEN Unparsable
    ELSE [ok |-> TRUE,
          version |-> ReadLE(bytes, 1, 3),
          inputs |-> ins.items,
          outputs |-> outs.items,
          witnesses |-> wits.items,
          locktime |-> SubSeq(bytes, wits.next, wits.next + 3)]

OutputsParsed(bytes, ins, outs) ==
    IF ~outs.ok THEN Unparsable
    ELSE WitnessesParsed(bytes, ins, outs,
                         ParseWitnesses(bytes, outs.next, Len(ins.items), <<>>))

InputsParsed(bytes, ins) ==
    IF ~ins.ok THEN Unparsable
    ELSE IF ins.next > Len(bytes) THEN Unparsable
    ELSE IF bytes[ins.next] >= 253 THEN Unparsable
    ELSE OutputsParsed(bytes, ins, ParseOutputs(bytes, ins.next + 1, bytes[ins.next], <<>>))

\* The transaction that the bytes serialize in the segwit format (version,
\* marker 0, flag 1, inputs, outputs, one witness stack per input,
\* locktime), if they are one, with nothing left over.
ParseTx(bytes) ==
    IF Len(bytes) < 7 THEN Unparsable
    ELSE IF bytes[5] # 0 \/ bytes[6] # 1 THEN Unparsable
    ELSE IF bytes[7] >= 253 THEN Unparsable
    ELSE InputsParsed(bytes, ParseInputs(bytes, 8, bytes[7], <<>>))

-----------------------------------------------------------------------------
(* The transaction builder                                                 *)

MaxTxInputs == 2
MaxTxOutputs == 2

XOnlyKey ==
    hexToBytes(Str("79be667ef9dcbbac55a06295ce870b07029bfcdb2dce28d959f2815b16f81798"))

ScriptHash ==
    hexToBytes(Str("1863143c14c5166804bd19203356da136c985678cd4d27a1b8c6329604903262"))

Address(text, type, network, version, checksum, program) ==
    [text |-> Str(text), type |-> type, network |-> network, version |-> version,
     checksum |-> checksum, program |-> program]

\* Addresses and what they are: the type ("invalid" when the address is
\* none), the network, the witness version, the checksum the text carries
\* and the witness program.
Addresses ==
    { Address("bc1qw508d6qejxtdg4y5r3zarvary0c5xw7kv8f3t4",
              "p2wpkh", Mainnet, 0, "bech32", PubKeyHash),
      Address("tb1qw508d6qejxtdg4y5r3zarvary0c5xw7kxpjzsx",
              "p2wpkh", Testnet, 0, "bech32", PubKeyHash),
      Address("bc1p0xlxvlhemja6c4dqv22uapctqupfhlxm9h8z3k2e72q4k9hcz7vqzk5jj0",
              "p2tr", Mainnet, 1, "bech32m", XOnlyKey),
      Address("tb1p0xlxvlhemja6c4dqv22uapctqupfhlxm9h8z3k2e72q4k9hcz7vq47zagq",
              "p2tr", Testnet, 1, "bech32m", XOnlyKey),
      Address("bc1p0xlxvlhemja6c4dqv22uapctqupfhlxm9h8z3k2e72q4k9hcz7vqh2y7hd",
              "invalid", Mainnet, 1, "bech32", XOnlyKey),
      Address("tb1p0xlxvlhemja6c4dqv22uapctqupfhlxm9h8z3k2e72q4k9hcz7vqqzj3dz",
              "invalid", Testnet, 1, "bech32", XOnlyKey),
      Address("bc1qw508d6qejxtdg4y5r3zarvary0c5xw7kemeawh",
              "invalid", Mainnet, 0, "bech32m", PubKeyHash),
      Address("bc1qw508d6qejxtdg4y5r3zarvary0c5xw7kv8f3t5",
              "invalid", Mainnet, 0, "none", PubKeyHash),
      Address("bc1qrp33g0q5c5txsp9arysrx4k6zdkfs4nce4xj0gdcccefvpysxf3qccfmv3",
              "p2wsh", Mainnet, 0, "bech32", ScriptHash),
      Address("1BvBMSEYstWetqTFn5Au4m4GFg7xJaNVN2",
              "p2pkh", Mainnet, -1, "base58", <<>>),
      Address("3J98t1WpEZ73CNmQviecrnyiWrnqRhWNLy",
              "p2sh", Mainnet, -1, "base58", <<>>) }

\* What the address text is, if it is one of Addresses.
Labelled(text) == CHOOSE a \in Addresses : a.text = text

\* A transaction id of 62 hexadecimal digits.
ShortTxid == SubSeq(Txid(3), 1, TXID_LENGTH - 2)

TxInputs ==
    { [txid |-> Txid(1), vout |-> 0, value |-> 100000],
      [txid |-> Txid(2), vout |-> 1, value |-> 70000],
      [txid |-> ShortTxid, vout |-> 0, value |-> 50000] }

\* The addresses that outputs pay to.
PayTo == { a \in Addresses : a.type \in {"p2wpkh", "p2pkh"} \/ (a.type = "p2tr" /\ a.network = Mainnet) }

TxOutputs == { [address |-> a.text, value |-> 30000] : a \in PayTo }

NonEmptySeqsUpTo(S, n) == UNION { [1..k -> S] : k \in 1..n }

InitTx ==
    /\ pc = "off"
    /\ kind = "none"
    /\ payload = JNull
    /\ envelope = NoEnvelope
    /\ wire = <<>>
    /\ parts = <<>>
    /\ origin = "none"
    /\ moves = 0
    /\ result = NoResult
    /\ SendIdle
    /\ AppIdle
    /\ txPc = "start"
    /\ net \in {Mainnet, Testnet}
    /\ addr = <<>>
    /\ scriptOut = NoResult
    /\ unsignedTx = NoResult
    /\ signedHex = NoResult

\* addressToScriptPubKey(address, network)
AddressToScriptPubKey ==
    /\ txPc = "start"
    /\ \E a \in Addresses :
         /\ addr' = a.text
         /\ scriptOut' = addressToScriptPubKey(a.text, net)
    /\ txPc' = "script"
    /\ UNCHANGED <<net, unsignedTx, signedHex, codecVars, sendVars, appVars>>

\* buildTransaction({inputs, outputs, network})
BuildTransaction ==
    /\ txPc = "start"
    /\ \E ins \in NonEmptySeqsUpTo(TxInputs, MaxTxInputs),
          outs \in NonEmptySeqsUpTo(TxOutputs, MaxTxOutputs) :
         unsignedTx' = buildTransaction([inputs |-> ins, outputs |-> outs, network |-> net])
    /\ txPc' = "built"
    /\ UNCHANGED <<net, addr, scriptOut, signedHex, codecVars, sendVars, appVars>>

\* signTransaction(unsignedTx, privateKey, network)
SignTransaction ==
    /\ txPc = "built"
    /\ signedHex' = signTransaction(unsignedTx, PrivateKey, net)
    /\ txPc' = "signed"
    /\ UNCHANGED <<net, addr, scriptOut, unsignedTx, codecVars, sendVars, appVars>>

NextTx == AddressToScriptPubKey \/ BuildTransaction \/ SignTransaction

SpecTx == InitTx /\ [][NextTx]_vars

-----------------------------------------------------------------------------
(* Properties of the transaction builder                                   *)

\* A witness stack of a P2WPKH input: the signature with the sighash byte
\* at its end, then the compressed public key.
IsP2WPKHWitness(stack) ==
    /\ Len(stack) = 2
    /\ Len(stack[1]) > 1
    /\ stack[1][Len(stack[1])] = SIGHASH_ALL
    /\ stack[2] = PublicKey

\* parsed is a transaction with every input and every output of tx, and one
\* witness stack of two items for every input.
IsCompleteFor(tx, parsed) ==
    /\ parsed.ok
    /\ Len(parsed.inputs) = Len(tx.inputs)
    /\ \A i \in 1..Len(tx.inputs) :
          /\ parsed.inputs[i].txid = tx.inputs[i].txid
          /\ parsed.inputs[i].vout = tx.inputs[i].vout
    /\ Len(parsed.outputs) = Len(tx.outputs)
    /\ \A i \in 1..Len(tx.outputs) : parsed.outputs[i].value = tx.outputs[i].value
    /\ Len(parsed.witnesses) = Len(tx.inputs)
    /\ \A i \in 1..Len(parsed.witnesses) : IsP2WPKHWitness(parsed.witnesses[i])

\* C8: signTransaction either throws, or returns the serialization of a
\* transaction that has every input and every output of the unsigned one
\* and, for every input in order, a witness stack of exactly two items, the
\* signature ending in the sighash byte 1 and the compressed public key;
\* what it returns is never a partial or truncated transaction.
C8_AllOrNothing ==
    txPc = "signed" /\ signedHex.ok
        => IsCompleteFor(unsignedTx, ParseTx(hexToBytes(signedHex.value)))

\* What the script of an address has to be on a network.
IsSpecifiedScript(a, network, script) ==
    IF a.type = "p2wpkh" /\ a.network = network
    THEN script = Return(<<0, 20>> \o a.program)
    ELSE IF a.type = "p2tr" /\ a.network = network
    THEN script = Return(<<OP_1, 32>> \o a.program)
    ELSE script = Throw("Unsupported address format")

\* C9: addressToScriptPubKey returns OP_0 and a push of the 20-byte hash for
\* a P2WPKH address of the network, OP_1 and a push of the 32-byte key for a
\* P2TR address of the network, and fails with the unsupported-format error
\* for every other address.
C9_ScriptOrUnsupported ==
    txPc = "script" => IsSpecifiedScript(Labelled(addr), net, scriptOut)

\* The checksum that BIP-350 gives to a witness version.
ChecksumOf(version) == IF version = 0 THEN "bech32" ELSE "bech32m"

\* The witness program has the length of a key hash (version 0) or of a
\* key (version 1).
IsKeyProgram(a) ==
    \/ a.version = 0 /\ Len(a.program) = 20
    \/ a.version = 1 /\ Len(a.program) = 32

\* C10: an address of the network with a key program is decoded exactly when
\* its checksum is the one of its witness version, bech32 for version 0 and
\* bech32m for version 1, and then to its program: every valid P2TR address
\* gives its 32-byte key.
C10_ChecksumMatchesVersion ==
    txPc = "script" /\ Labelled(addr).network = net /\ IsKeyProgram(Labelled(addr))
        => /\ scriptOut.ok <=> Labelled(addr).checksum = ChecksumOf(Labelled(addr).version)
           /\ scriptOut.ok =>
                 SubSeq(scriptOut.value, 3, Len(scriptOut.value)) = Labelled(addr).program

\* The bytes signTransaction hashes into hashPrevouts, hashSequence and
\* hashOutputs for the transaction tx.
CommittedPrevouts(tx) == PrevoutsData(tx.inputs, 1, Zeros(Len(tx.inputs) * 36))
CommittedSequences(tx) == SequenceData(tx.inputs)
CommittedOutputs(tx, network) ==
    OutputsBuffer(tx.outputs, ScriptsOf(tx.outputs, network))

\* The preimage signTransaction builds and signs for the i-th input.
PreimageOf(tx, i, privateKey, network) ==
    buildBIP143Preimage(tx.version,
                        doubleSha256(CommittedPrevouts(tx)),
                        doubleSha256(CommittedSequences(tx)),
                        tx.inputs[i].txid, tx.inputs[i].vout,
                        hash160(getPublicKey(privateKey)),
                        tx.inputs[i].value, SEQUENCE_FINAL,
                        doubleSha256(CommittedOutputs(tx, network)), tx.locktime)

\* The fields of a preimage p that the final serialization has as well:
\* the version in front; then, behind the two hashes of 32 bytes, the
\* outpoint; and, counted from the end (sighash type 4, locktime 4,
\* hashOutputs 32, sequence 4, value 8, scriptCode 26), sequence and locktime.
PreimageVersion(p) == SubSeq(p, 1, 4)
PreimageOutpoint(p) == SubSeq(p, 69, Len(p) - 78)
PreimageSequence(p) == SubSeq(p, Len(p) - 43, Len(p) - 40)
PreimageLocktime(p) == SubSeq(p, Len(p) - 7, Len(p) - 4)

\* The fields of the bytes of a serialized transaction of n inputs: the
\* version, the marker, the flag and the input count take 7 bytes, and every
\* input takes 41: outpoint 36, empty scriptSig 1, sequence 4.  The outputs
\* follow their count and take as many bytes as length tells.
WrittenVersion(bytes) == SubSeq(bytes, 1, 4)
WrittenOutpoint(bytes, i) == SubSeq(bytes, 8 + 41 * (i - 1), 43 + 41 * (i - 1))
WrittenSequence(bytes, i) == SubSeq(bytes, 45 + 41 * (i - 1), 48 + 41 * (i - 1))
WrittenOutputs(bytes, n, length) == SubSeq(bytes, 9 + 41 * n, 8 + 41 * n + length)
WrittenLocktime(bytes) == SubSeq(bytes, Len(bytes) - 3, Len(bytes))

\* The bytes of the transaction hex are those the signature hashes commit to.
SignedIsSerialized(tx, bytes, privateKey, network) ==
    /\ bytes = hexToBytes(serializeTransaction(tx,
                   Tuple([i \in 1..Len(tx.inputs) |->
                       WitnessOf(doubleSha256(PreimageOf(tx, i, privateKey, network)),
                                 privateKey)]),
                   network).value)
    /\ \A i \in 1..Len(tx.inputs) :
          /\ SubSeq(CommittedPrevouts(tx), 36 * i - 35, 36 * i) = WrittenOutpoint(bytes, i)
          /\ PreimageOutpoint(PreimageOf(tx, i, privateKey, network)) =
                 WrittenOutpoint(bytes, i)
          /\ SubSeq(CommittedSequences(tx), 4 * i - 3, 4 * i) = WrittenSequence(bytes, i)
          /\ PreimageSequence(PreimageOf(tx, i, privateKey, network)) =
                 WrittenSequence(bytes, i)
          /\ PreimageVersion(PreimageOf(tx, i, privateKey, network)) = WrittenVersion(bytes)
          /\ PreimageLocktime(PreimageOf(tx, i, privateKey, network)) =
                 WrittenLocktime(bytes)
    /\ CommittedOutputs(tx, network) =
           WrittenOutputs(bytes, Len(tx.inputs), Len(CommittedOutputs(tx, network)))

\* C27: what is signed is what is serialized: the fields the signature hash
\* commits to (every outpoint in hashPrevouts and in its preimage, the
\* sequence 0xffffffff, every output's value, script length and scriptPubKey
\* in hashOutputs, the version and the locktime) are, byte for byte and in
\* the same order, those written in the serialized transaction.
C27_SignedIsSerialized ==
    (txPc = "signed" /\ signedHex.ok) =>
        SignedIsSerialized(unsignedTx, hexToBytes(signedHex.value), PrivateKey, net)

-----------------------------------------------------------------------------
(* src/utils/psbt.ts: createUnsignedPSBT, and the signing screen           *)

\* items.reduce((sum, item) => sum + item.value, 0)
SumOfValues(items) == Sum(Tuple([i \in 1..Len(items) |-> Get(items[i], K_value).v]))

\* createUnsignedPSBT from the fee on.
CreatedWithFee(inputs, outputs, network, changeIndex, fee) ==
    IF fee < 0 THEN Throw("Invalid transaction: outputs exceed inputs")
    ELSE Return(Obj(Literal(<< <<K_version, Num(2)>>,
                               <<K_inputs, inputs>>,
                               <<K_outputs, outputs>>,
                               <<K_network, network>>,
                               <<K_fee, Num(fee)>>,
                               <<K_changeIndex, changeIndex>> >>)))

\* A createUnsignedPSBT without the test of the fee.
createUnchecked(inputs, outputs, network, changeIndex) ==
    Return(Obj(Literal(<< <<K_version, Num(2)>>,
                          <<K_inputs, inputs>>,
                          <<K_outputs, outputs>>,
                          <<K_network, network>>,
                          <<K_fee, Num(SumOfValues(inputs.v) - SumOfValues(outputs.v))>>,
                          <<K_changeIndex, changeIndex>> >>)))

createUnsignedPSBT(inputs, outputs, network, changeIndex) ==
    CreatedWithFee(inputs, outputs, network, changeIndex,
                   SumOfValues(inputs.v) - SumOfValues(outputs.v))

\* psbt.inputs.map(...) and psbt.outputs.map(...) of handleSign
TxInputOf(input) ==
    [txid |-> Get(input, K_txid).v, vout |-> Get(input, K_vout).v,
     value |-> Get(input, K_value).v]

TxOutputOf(output) ==
    [address |-> Get(output, K_address).v, value |-> Get(output, K_value).v]

\* handleSign: buildTransaction and signTransaction for the reviewed PSBT.
SignReviewed(psbt, network) ==
    signTransaction(
        buildTransaction(
            [inputs |-> Tuple([i \in 1..Len(Get(psbt, K_inputs).v) |->
                                  TxInputOf(Get(psbt, K_inputs).v[i])]),
             outputs |-> Tuple([i \in 1..Len(Get(psbt, K_outputs).v) |->
                                   TxOutputOf(Get(psbt, K_outputs).v[i])]),
             network |-> network]),
        PrivateKey, network)

-----------------------------------------------------------------------------
(* A cold signing: the watch device makes a PSBT, the signer reviews it    *)

\* The outputs the watch device pays: to the address of the network.
PaidOutput(network, value) ==
    Obj(<< <<K_address, StrV(IF network = Mainnet THEN AddrMainnetP2WPKH
                             ELSE AddrTestnetP2WPKH)>>,
           <<K_value, Num(value)>> >>)

PaidValues == {30000, 150000}

\* The PSBT of one input of 100000 and one output of 30001 on mainnet.
PlainPSBT == UnsignedPSBTOf(1, 1, FALSE)

\* An input or an output of PlainPSBT with one field changed.
ChangedInput(k, x) == Arr(<<With(PSBTInputOf(1, FALSE), k, x)>>)
ChangedOutput(k, x) == Arr(<<With(PSBTOutputOf(1, Mainnet), k, x)>>)

\* A transaction id of 64 characters that are no hexadecimal digits.
NonHexTxid == Tuple([i \in 1..TXID_LENGTH |-> 122])

\* PSBTs that another program, or an attacker, shows to the signer.
ForeignPSBTs ==
    { [label |-> "fee understated", psbt |-> With(PlainPSBT, K_fee, Num(1000))],
      [label |-> "outputs exceed inputs",
       psbt |-> With(PlainPSBT, K_outputs, ChangedOutput(K_value, Num(300000)))],
      [label |-> "txid not hexadecimal",
       psbt |-> With(PlainPSBT, K_inputs, ChangedInput(K_txid, StrV(NonHexTxid)))],
      [label |-> "output value zero",
       psbt |-> With(With(PlainPSBT, K_outputs, ChangedOutput(K_value, Num(0))),
                     K_fee, Num(InputValue(1)))],
      [label |-> "input value zero",
       psbt |-> With(PlainPSBT, K_inputs, ChangedInput(K_value, Num(0)))],
      [label |-> "txid short",
       psbt |-> With(PlainPSBT, K_inputs, ChangedInput(K_txid, StrV(ShortTxid)))],
      [label |-> "no inputs", psbt |-> With(PlainPSBT, K_inputs, Arr(<<>>))],
      [label |-> "network unknown",
       psbt |-> With(PlainPSBT, K_network, StrV(Str("regtest")))] }

InitSigner ==
    /\ CodecIdle
    /\ SendIdle
    /\ TxIdle
    /\ OnlineIdle
    /\ KeysIdle
    /\ StoreIdle
    /\ NetIdle
    /\ sigPc = "start"
    /\ deviceNet \in {Mainnet, Testnet}
    /\ request = JNull
    /\ created = NoResult
    /\ psbtData = <<>>
    /\ reviewed = NoResult
    /\ error = Null
    /\ signing = Null
    /\ signedTxHex = NoResult
    /\ qrData = <<>>

\* The watch device: createUnsignedPSBT(inputs, outputs, network, changeIndex)
CreateUnsignedPSBT ==
    /\ sigPc = "start"
    /\ \E network \in {Mainnet, Testnet},
          nIn \in 1..MaxInputs,
          values \in NonEmptySeqsUpTo(PaidValues, MaxOutputs),
          changeIndex \in {Undefined, Num(1)} :
         request' = [inputs |-> Arr(Tuple([k \in 1..nIn |-> PSBTInputOf(k, FALSE)])),
                     outputs |-> Arr(Tuple([k \in 1..Len(values) |->
                                               PaidOutput(network, values[k])])),
                     network |-> StrV(network),
                     changeIndex |-> changeIndex]
    /\ created' = createUnsignedPSBT(request'.inputs, request'.outputs,
                                     request'.network, request'.changeIndex)
    /\ sigPc' = "created"
    /\ UNCHANGED <<deviceNet, psbtData, reviewed, error, signing, signedTxHex, qrData,
                 besideSigner>>

\* A PSBT that did not come from createUnsignedPSBT.
ForeignPSBT ==
    /\ sigPc = "start"
    /\ \E f \in ForeignPSBTs : created' = Return(f.psbt)
    /\ sigPc' = "foreign"
    /\ UNCHANGED <<deviceNet, request, psbtData, reviewed, error, signing, signedTxHex, qrData,
                 besideSigner>>

\* The PSBT is shown as a QR code and scanned by the signer.
ShowPSBT ==
    /\ sigPc \in {"created", "foreign"}
    /\ created.ok
    /\ psbtData' = serializePSBT(created.value)
    /\ sigPc' = "scanned"
    /\ UNCHANGED <<deviceNet, request, created, reviewed, error, signing, signedTxHex, qrData,
                 besideSigner>>

\* The message of the error view of the signing screen.
Shown(message) == [message |-> message]

\* SignTransactionScreen, the body of the effect: deserializePSBT(psbtData)
\* and the test of the network; what setError is called with, if it is.
ParseEffect(data, network) ==
    LET parsed == deserializePSBT(data)
    IN IF ~parsed.ok THEN Shown(parsed.error)
       ELSE IF Get(parsed.value, K_network).v # network THEN Shown("Network mismatch")
       ELSE Null

\* SignTransactionScreen, the effect on mount.  The screen shows the error
\* view when error is set and the PSBT with the sign button otherwise.
ParsePSBT ==
    /\ sigPc = "scanned"
    /\ reviewed' = deserializePSBT(psbtData)
    /\ error' = ParseEffect(psbtData, deviceNet)
    /\ sigPc' = IF ~reviewed'.ok THEN "parse error"
                ELSE IF Get(reviewed'.value, K_network).v # deviceNet THEN "Network mismatch"
                ELSE "review"
    /\ UNCHANGED <<deviceNet, request, created, psbtData, signing, signedTxHex, qrData,
                   besideSigner>>

\* The store's network changes while the signing screen is mounted (a
\* setNetwork of the wallet store completes): the effect, which depends on
\* network.type, runs again.  No code sets error back to null, and a
\* handleSign that is waiting keeps the network it was called with.
NetworkChanged ==
    /\ sigPc \in {"review", "signing", "parse error", "Network mismatch"}
    /\ deviceNet' = IF deviceNet = Mainnet THEN Testnet ELSE Mainnet
    /\ error' = IF ParseEffect(psbtData, deviceNet') # Null
                THEN ParseEffect(psbtData, deviceNet')
                ELSE error
    /\ sigPc' = IF sigPc = "review" /\ error' # Null THEN "Network mismatch" ELSE sigPc
    /\ UNCHANGED <<request, created, psbtData, reviewed, signing, signedTxHex, qrData,
                   besideSigner>>

\* SignTransactionScreen.handleSign up to the await of keychainService.get:
\* it returns at once when the store has no wallet.
HandleSign ==
    /\ sigPc = "review"
    /\ \E wallet \in BOOLEAN :
         IF ~wallet THEN UNCHANGED <<sigPc, signing>>
         ELSE /\ signing' = [null |-> FALSE, psbt |-> reviewed.value, network |-> deviceNet]
              /\ sigPc' = "signing"
    /\ UNCHANGED <<deviceNet, request, created, psbtData, reviewed, error, signedTxHex,
                   qrData, besideSigner>>

\* handleSign from the mnemonic on: derivePrivateKey, buildTransaction and
\* signTransaction on the network handleSign was called with, then
\* navigation.replace('SignedTxDisplay'), or the alert 'Signing Failed'.
HandleSignGotMnemonic ==
    /\ sigPc = "signing"
    /\ \E mnemonic \in {JNull, StrV(Str("abandon about"))} :
         signedTxHex' = IF mnemonic = JNull
                        THEN Throw("Wallet not found. Please import your wallet first.")
                        ELSE SignReviewed(signing.psbt, signing.network)
    /\ sigPc' = IF signedTxHex'.ok THEN "SignedTxDisplay" ELSE "Signing Failed"
    /\ signing' = Null
    /\ UNCHANGED <<deviceNet, request, created, psbtData, reviewed, error, qrData,
                   besideSigner>>

\* SignedTxDisplayScreen: the envelope it makes of the signed hex.
SignedTxDisplay ==
    /\ sigPc = "SignedTxDisplay"
    /\ qrData = <<>>
    /\ qrData' = serializeSignedTx(Obj(<< <<K_txHex, StrV(signedTxHex.value)>>,
                                          <<K_txid, StrV(<<>>)>>,
                                          <<K_network, StrV(Mainnet)>> >>))
    /\ UNCHANGED <<sigPc, deviceNet, request, created, psbtData, reviewed, error, signing,
                   signedTxHex, besideSigner>>

NextSigner ==
    \/ CreateUnsignedPSBT
    \/ ForeignPSBT
    \/ ShowPSBT
    \/ ParsePSBT
    \/ NetworkChanged
    \/ HandleSign
    \/ HandleSignGotMnemonic
    \/ SignedTxDisplay

SpecSigner == InitSigner /\ [][NextSigner]_vars

-----------------------------------------------------------------------------
(* Properties of the cold signing                                          *)

TotalInput(psbt) == SumOfValues(Get(psbt, K_inputs).v)
TotalOutput(psbt) == SumOfValues(Get(psbt, K_outputs).v)

\* C11: every PSBT that deserializePSBT returned and that the signer reviews
\* or has signed has inputs that sum to at least the sum of its outputs, and a
\* fee equal to the difference of the two sums.
C11_ReviewedIsBalanced ==
    sigPc \in {"review", "SignedTxDisplay"} =>
        /\ TotalInput(reviewed.value) >= TotalOutput(reviewed.value)
        /\ Get(reviewed.value, K_fee) =
               Num(TotalInput(reviewed.value) - TotalOutput(reviewed.value))

\* C12: createUnsignedPSBT throws when the outputs exceed the inputs, and
\* otherwise returns a PSBT with the inputs, outputs, network and changeIndex
\* it was given and the fee sum(inputs) - sum(outputs), which is not negative.
C12_CreatedOrRejected ==
    sigPc = "created" =>
        IF SumOfValues(request.outputs.v) > SumOfValues(request.inputs.v)
        THEN created = Throw("Invalid transaction: outputs exceed inputs")
        ELSE /\ created.ok
             /\ Get(created.value, K_inputs) = request.inputs
             /\ Get(created.value, K_outputs) = request.outputs
             /\ Get(created.value, K_network) = request.network
             /\ Get(created.value, K_changeIndex) = request.changeIndex
             /\ Get(created.value, K_fee) =
                    Num(SumOfValues(request.inputs.v) - SumOfValues(request.outputs.v))
             /\ Get(created.value, K_fee).v >= 0

\* createUnsignedPSBT was asked for outputs that exceed the inputs.
C12_Witness ==
    /\ sigPc = "created"
    /\ SumOfValues(request.outputs.v) > SumOfValues(request.inputs.v)
    /\ ~created.ok

IsHexString(s) == \A i \in 1..Len(s) : HexValue(s[i]) >= 0

\* What the specification calls a structurally valid payload.
StructurallyValid(psbt) ==
    /\ Get(psbt, K_inputs).t = "arr" /\ Get(psbt, K_inputs).v # <<>>
    /\ Get(psbt, K_outputs).t = "arr" /\ Get(psbt, K_outputs).v # <<>>
    /\ Get(psbt, K_network) \in {StrV(Mainnet), StrV(Testnet)}
    /\ \A i \in 1..Len(Get(psbt, K_inputs).v) :
           LET input == Get(psbt, K_inputs).v[i]
           IN /\ Get(input, K_value).t = "num" /\ Get(input, K_value).v > 0
              /\ Get(input, K_txid).t = "str"
              /\ Len(Get(input, K_txid).v) = TXID_LENGTH
              /\ IsHexString(Get(input, K_txid).v)
    /\ \A i \in 1..Len(Get(psbt, K_outputs).v) :
           LET output == Get(psbt, K_outputs).v[i]
           IN Get(output, K_value).t = "num" /\ Get(output, K_value).v > 0

\* C13: deserializePSBT returns only structurally valid payloads: inputs and
\* outputs not empty, network mainnet or testnet, every input and output value
\* positive, every txid 64 hexadecimal characters; all others are rejected.
C13_AcceptedIsValid ==
    (sigPc \notin {"start", "created", "foreign", "scanned"} /\ reviewed.ok) =>
        StructurallyValid(reviewed.value)

\* handleSign produces a signed transaction, or the signed-transaction screen
\* replaces the signing screen.
SignedNow ==
    \/ signedTxHex' # signedTxHex /\ signedTxHex'.ok
    \/ sigPc # "SignedTxDisplay" /\ sigPc' = "SignedTxDisplay"

\* C25: a transaction is signed, and the signed-transaction screen is reached,
\* only if the scanned data was deserialized as a PSBT whose network is the
\* wallet's network at the time of signing, and the screen shows no parse or
\* network-mismatch error.
C25_SignedOnlyOnCurrentNetwork ==
    [][SignedNow => /\ reviewed.ok
                    /\ Get(reviewed.value, K_network).v = deviceNet
                    /\ error = Null]_vars

\* C26: the signed-transaction envelope the signer makes for the way back to
\* the watch device carries the network of the PSBT that was signed.
C26_EnvelopeKeepsNetwork ==
    qrData # <<>> =>
        /\ deserializeSignedTx(qrData).ok
        /\ Get(deserializeSignedTx(qrData).value, K_network) =
               Get(reviewed.value, K_network)

-----------------------------------------------------------------------------
(* src/hooks/useBitcoin.ts (BlockchainService) and bitcoinService.ts:      *)
(* the calls to the blockchain data provider                               *)

\* fetchWithTimeout(url, timeout = 10000)
DEFAULT_TIMEOUT == 10000

\* setTimeout(() => controller.abort(), timeout)
ArmedTimer == [state |-> "armed", timeout |-> DEFAULT_TIMEOUT]

\* clearTimeout(timeoutId): a timer that is armed is cleared.
ClearTimeout(t) == IF t.state = "armed" THEN [t EXCEPT !.state = "cleared"] ELSE t

\* The request has been answered, has failed or has been aborted.
Settled(h) == h \in {"ok", "error status", "rejected", "aborted"}

\* getBalance: the funded minus the spent outputs, confirmed and unconfirmed.
getBalanceOutcome(h, data) ==
    IF h = "ok"
    THEN Return((data.chain_stats.funded_txo_sum - data.chain_stats.spent_txo_sum)
                + (data.mempool_stats.funded_txo_sum - data.mempool_stats.spent_txo_sum))
    ELSE Throw("Failed to fetch balance from blockchain")

getUTXOsOutcome(h, data) ==
    IF h = "ok"
    THEN Return(Tuple([i \in 1..Len(data) |->
                          [txid |-> data[i].txid, vout |-> data[i].vout,
                           value |-> data[i].value]]))
    ELSE Throw("Failed to fetch UTXOs from blockchain")

getTransactionsOutcome(h, data) ==
    IF h = "ok" THEN Return(data)
    ELSE Throw("Failed to fetch transactions from blockchain")

\* The estimates getFeeEstimates returns when the request has failed.
DefaultFeeEstimates ==
    [fastestFee |-> 30, halfHourFee |-> 20, hourFee |-> 10, economyFee |-> 5,
     minimumFee |-> 1]

getFeeEstimatesOutcome(h, data) ==
    IF h = "ok" THEN Return(data) ELSE Return(DefaultFeeEstimates)

\* A getFeeEstimates that rethrows like the other calls.
getFeeEstimatesOrThrow(h, data) ==
    IF h = "ok" THEN Return(data)
    ELSE Throw("Failed to fetch fee estimates from blockchain")

broadcastTransactionOutcome(h, data) ==
    IF h = "ok" THEN Return(data)
    ELSE IF h = "error status" THEN Throw("Broadcast failed")
    ELSE Throw("Network request failed")

\* The result of the BlockchainService method name for a settled request.
OutcomeOf(name, h, data) ==
    IF name = "getBalance" THEN getBalanceOutcome(h, data)
    ELSE IF name = "getUTXOs" THEN getUTXOsOutcome(h, data)
    ELSE IF name = "getTransactions" THEN getTransactionsOutcome(h, data)
    ELSE IF name = "getFeeEstimates" THEN getFeeEstimatesOutcome(h, data)
    ELSE broadcastTransactionOutcome(h, data)

\* estimateFee and sendBitcoin: the switch on the priority.
FeeRateOf(priority, estimates) ==
    IF priority = "high" THEN estimates.fastestFee
    ELSE IF priority = "medium" THEN estimates.halfHourFee
    ELSE estimates.hourFee

\* estimateFee after getFeeEstimates has returned.
estimateFee(priority, inputCount, outputCount, estimates) ==
    [fee |-> FeeRateOf(priority, estimates) * TxSize(inputCount, outputCount),
     feeRate |-> FeeRateOf(priority, estimates)]

buildAndSignTransaction(privateKey, fromAddress, toAddress, sendAmount, utxos, change, network) ==
    signTransaction(
        buildTransaction(
            [inputs |-> Tuple([i \in 1..Len(utxos) |->
                                  [txid |-> utxos[i].txid, vout |-> utxos[i].vout,
                                   value |-> utxos[i].value]]),
             outputs |-> BuiltOutputs(toAddress, fromAddress, sendAmount, change),
             network |-> network]),
        privateKey, network)

\* crypto.ts isValidAddress: the checksum is checked for bc1q and tb1q only.
isValidAddress(address) ==
    IF Len(address) = 0 THEN FALSE
    ELSE IF StartsWith(address, Str("bc1q")) \/ StartsWith(address, Str("tb1q"))
    THEN LET decoded == bech32_decode(address)
         IN  decoded.ok /\ Len(decoded.value.words) >= 1 /\ decoded.value.words[1] = 0
    ELSE IF StartsWith(address, Str("bc1p")) \/ StartsWith(address, Str("tb1p"))
    THEN Len(address) = 62
    ELSE IF \E first \in {Str("1"), Str("3"), Str("m"), Str("n"), Str("2")} :
                StartsWith(address, first)
    THEN Len(address) >= 26 /\ Len(address) <= 35
    ELSE FALSE

\* A sendBitcoin that does not look at the recipient address.
AmountCheckOnly(toAddress, sendAmount) ==
    IF sendAmount < DUST_LIMIT THEN Throw("Amount too small") ELSE Return(TRUE)

\* sendBitcoin before its first await: the address check, then the amount
\* check.
sendBitcoinChecks(toAddress, sendAmount) ==
    IF ~isValidAddress(toAddress) THEN Throw("Invalid recipient address")
    ELSE IF sendAmount < DUST_LIMIT THEN Throw("Amount too small")
    ELSE Return(TRUE)

-----------------------------------------------------------------------------
(* The application online: one service operation and the provider          *)

MaxCount == 2

Priorities == {"low", "medium", "high"}

\* The amounts asked of sendBitcoin: below the dust limit, small, large.
SendAmounts == {500, 1000, 150000}

\* The recipients asked of sendBitcoin: an address of the network, one of
\* the other network, one with a wrong checksum, none.
SendAddresses ==
    { AddrMainnetP2WPKH, AddrTestnetP2WPKH,
      Str("bc1qw508d6qejxtdg4y5r3zarvary0c5xw7kv8f3t5"), Str("") }

\* What the provider can answer to each request.
BalanceReplies ==
    { [chain_stats |-> [funded_txo_sum |-> 300000, spent_txo_sum |-> 100000],
       mempool_stats |-> [funded_txo_sum |-> 0, spent_txo_sum |-> 50000]] }

UtxoReplyValues == {1704, 2251, 100000}

UtxoReplies ==
    { Tuple([i \in 1..Len(values) |->
                [txid |-> Txid(i), vout |-> 0, value |-> values[i],
                 status |-> [confirmed |-> TRUE]]]) :
        values \in SeqsUpTo(UtxoReplyValues, MaxUtxos) }

TransactionReplies == { <<>>, <<[txid |-> Txid(1)]>> }

FeeReplies ==
    { [fastestFee |-> 15, halfHourFee |-> 5, hourFee |-> 2, economyFee |-> 1,
       minimumFee |-> 1],
      [fastestFee |-> 3, halfHourFee |-> 2, hourFee |-> 1, economyFee |-> 1,
       minimumFee |-> 1] }

BroadcastReplies == { Txid(7) }

RepliesTo(name) ==
    IF name = "getBalance" THEN BalanceReplies
    ELSE IF name = "getUTXOs" THEN UtxoReplies
    ELSE IF name = "getTransactions" THEN TransactionReplies
    ELSE IF name = "getFeeEstimates" THEN FeeReplies
    ELSE BroadcastReplies

InitOnline ==
    /\ CodecIdle
    /\ SendIdle
    /\ TxIdle
    /\ SignerIdle
    /\ KeysIdle
    /\ StoreIdle
    /\ NetIdle
    /\ op = "none"
    /\ args = JNull
    /\ call = "none"
    /\ http = "none"
    /\ timer = NoTimer
    /\ reply = JNull
    /\ feeFetch = "none"
    /\ feeEstimates = NoResult
    /\ fetched = <<>>
    /\ picked = Null
    /\ rawTx = NoResult
    /\ returned = NoResult

\* fetchWithTimeout(url) up to its await: the request and its timer.
FetchWithTimeout(name) ==
    /\ call' = name
    /\ http' = "pending"
    /\ timer' = ArmedTimer
    /\ reply' = JNull

\* fetch(url, {method: 'POST', ...}) of broadcastTransaction: no signal, no timer.
PlainFetch(name) ==
    /\ call' = name
    /\ http' = "pending"
    /\ timer' = NoTimer
    /\ reply' = JNull

\* getBalance, getUTXOs, getTransactions or getFeeEstimates, called by the
\* application.
CallProvider ==
    /\ op = "none"
    /\ \E name \in {"getBalance", "getUTXOs", "getTransactions", "getFeeEstimates"} :
         /\ op' = name
         /\ FetchWithTimeout(name)
    /\ args' = [address |-> AddrMainnetP2WPKH, network |-> Mainnet]
    /\ UNCHANGED <<feeFetch, feeEstimates, fetched, picked, rawTx, returned, besideOnline>>

\* broadcastTransaction(txHex, network), called by the application.
BroadcastTransaction ==
    /\ op = "none"
    /\ op' = "broadcastTransaction"
    /\ args' = [txHex |-> Str("0200"), network |-> Mainnet]
    /\ PlainFetch("broadcastTransaction")
    /\ UNCHANGED <<feeFetch, feeEstimates, fetched, picked, rawTx, returned, besideOnline>>

\* estimateFee(priority, inputCount, outputCount) up to its await.
EstimateFee ==
    /\ op = "none"
    /\ op' = "estimateFee"
    /\ \E priority \in Priorities, inputCount \in 1..MaxCount, outputCount \in 1..MaxCount :
         args' = [priority |-> priority, inputCount |-> inputCount,
                  outputCount |-> outputCount]
    /\ FetchWithTimeout("getFeeEstimates")
    /\ UNCHANGED <<feeFetch, feeEstimates, fetched, picked, rawTx, returned, besideOnline>>

\* sendBitcoin(mnemonic, toAddress, amount, priority), up to its first await.
SendBitcoinCalled ==
    /\ op = "none"
    /\ op' = "sendBitcoin"
    /\ \E toAddress \in SendAddresses, sendAmount \in SendAmounts, priority \in Priorities :
         args' = [toAddress |-> toAddress, amount |-> sendAmount,
                  priority |-> priority, network |-> Mainnet]
    /\ IF ~sendBitcoinChecks(args'.toAddress, args'.amount).ok
       THEN /\ returned' = sendBitcoinChecks(args'.toAddress, args'.amount)
            /\ UNCHANGED <<call, http, timer, reply>>
       ELSE /\ FetchWithTimeout("getUTXOs")
            /\ UNCHANGED returned
    /\ UNCHANGED <<feeFetch, feeEstimates, fetched, picked, rawTx, besideOnline>>

\* The provider answers the request with a body.
Respond ==
    /\ http = "pending"
    /\ \E data \in RepliesTo(call) : reply' = data
    /\ http' = "ok"
    /\ UNCHANGED <<op, args, call, timer, feeFetch, feeEstimates, fetched, picked, rawTx,
                   returned, besideOnline>>

\* The provider answers with an error status, or the connection fails.
RequestFails ==
    /\ http = "pending"
    /\ http' \in {"error status", "rejected"}
    /\ UNCHANGED <<op, args, call, timer, reply, feeFetch, feeEstimates, fetched, picked,
                   rawTx, returned, besideOnline>>

\* The timer of fetchWithTimeout fires: controller.abort() rejects the fetch.
TimeoutFires ==
    /\ timer.state = "armed"
    /\ http = "pending"
    /\ timer' = [timer EXCEPT !.state = "fired"]
    /\ http' = "aborted"
    /\ UNCHANGED <<op, args, call, reply, feeFetch, feeEstimates, fetched, picked, rawTx,
                   returned, besideOnline>>

\* A call the application made itself returns or throws.
ProviderCallSettles ==
    /\ op \in {"getBalance", "getUTXOs", "getTransactions", "getFeeEstimates",
               "broadcastTransaction"}
    /\ call = op
    /\ Settled(http)
    /\ timer' = ClearTimeout(timer)
    /\ returned' = OutcomeOf(call, http, reply)
    /\ feeFetch' = IF call # "getFeeEstimates" THEN feeFetch
                   ELSE IF http = "ok" THEN "ok" ELSE "failed"
    /\ feeEstimates' = IF call = "getFeeEstimates" THEN returned' ELSE feeEstimates
    /\ call' = "none"
    /\ UNCHANGED <<op, args, http, reply, fetched, picked, rawTx, besideOnline>>

\* estimateFee after its await.
EstimateFeeReturns ==
    /\ op = "estimateFee"
    /\ call = "getFeeEstimates"
    /\ Settled(http)
    /\ timer' = ClearTimeout(timer)
    /\ feeFetch' = IF http = "ok" THEN "ok" ELSE "failed"
    /\ feeEstimates' = getFeeEstimatesOutcome(http, reply)
    /\ returned' = IF feeEstimates'.ok
                   THEN Return(estimateFee(args.priority, args.inputCount,
                                           args.outputCount, feeEstimates'.value))
                   ELSE feeEstimates'
    /\ call' = "none"
    /\ UNCHANGED <<op, args, http, reply, fetched, picked, rawTx, besideOnline>>

\* sendBitcoin after getUTXOs: the request for the fee estimates.
SendBitcoinGotUTXOs ==
    /\ op = "sendBitcoin"
    /\ call = "getUTXOs"
    /\ Settled(http)
    /\ LET utxos == getUTXOsOutcome(http, reply)
       IN IF ~utxos.ok
          THEN /\ returned' = utxos
               /\ timer' = ClearTimeout(timer)
               /\ call' = "none"
               /\ UNCHANGED <<http, reply, fetched>>
          ELSE IF Len(utxos.value) = 0
          THEN /\ returned' = Throw("No UTXOs available")
               /\ timer' = ClearTimeout(timer)
               /\ call' = "none"
               /\ UNCHANGED <<http, reply, fetched>>
          ELSE /\ fetched' = utxos.value
               /\ FetchWithTimeout("getFeeEstimates")
               /\ UNCHANGED returned
    /\ UNCHANGED <<op, args, feeFetch, feeEstimates, picked, rawTx, besideOnline>>

\* sendBitcoin after getFeeEstimates: the selection, up to the await of
\* buildAndSignTransaction.
SendBitcoinGotFees ==
    /\ op = "sendBitcoin"
    /\ call = "getFeeEstimates"
    /\ Settled(http)
    /\ timer' = ClearTimeout(timer)
    /\ feeFetch' = IF http = "ok" THEN "ok" ELSE "failed"
    /\ feeEstimates' = getFeeEstimatesOutcome(http, reply)
    /\ IF ~feeEstimates'.ok
       THEN /\ returned' = feeEstimates'
            /\ call' = "none"
            /\ UNCHANGED picked
       ELSE /\ picked' = selectUTXOs(fetched, args.amount,
                                     FeeRateOf(args.priority, feeEstimates'.value))
            /\ IF picked'.null
               THEN returned' = Throw("Insufficient funds") /\ call' = "none"
               ELSE call' = "buildAndSignTransaction" /\ UNCHANGED returned
    /\ UNCHANGED <<op, args, http, reply, fetched, rawTx, besideOnline>>

\* sendBitcoin after buildAndSignTransaction: the request that broadcasts
\* the transaction.
SendBitcoinSigned ==
    /\ op = "sendBitcoin"
    /\ call = "buildAndSignTransaction"
    /\ rawTx' = buildAndSignTransaction(PrivateKey, AddrMainnetP2WPKH, args.toAddress,
                                        args.amount, picked.selectedUTXOs, picked.change,
                                        args.network)
    /\ IF rawTx'.ok
       THEN PlainFetch("broadcastTransaction") /\ UNCHANGED returned
       ELSE /\ returned' = rawTx'
            /\ call' = "none"
            /\ UNCHANGED <<http, timer, reply>>
    /\ UNCHANGED <<op, args, feeFetch, feeEstimates, fetched, picked, besideOnline>>

\* sendBitcoin after broadcastTransaction.
SendBitcoinReturns ==
    /\ op = "sendBitcoin"
    /\ call = "broadcastTransaction"
    /\ Settled(http)
    /\ returned' = IF broadcastTransactionOutcome(http, reply).ok
                   THEN Return([txid |-> reply, fee |-> picked.fee])
                   ELSE broadcastTransactionOutcome(http, reply)
    /\ call' = "none"
    /\ UNCHANGED <<op, args, http, timer, reply, feeFetch, feeEstimates, fetched, picked,
                   rawTx, besideOnline>>

NextOnline ==
    \/ CallProvider
    \/ BroadcastTransaction
    \/ EstimateFee
    \/ SendBitcoinCalled
    \/ Respond
    \/ RequestFails
    \/ TimeoutFires
    \/ ProviderCallSettles
    \/ EstimateFeeReturns
    \/ SendBitcoinGotUTXOs
    \/ SendBitcoinGotFees
    \/ SendBitcoinSigned
    \/ SendBitcoinReturns

SpecOnline == InitOnline /\ [][NextOnline]_vars

\* A timer that is armed and not cleared fires when its time has passed;
\* nothing makes the provider answer.
SpecOnlineFair == SpecOnline /\ WF_vars(TimeoutFires)

-----------------------------------------------------------------------------
(* Properties of the calls to the provider                                 *)

\* ceil(h / 2) for a number h of half bytes.
CeilOfHalves(h) == CHOOSE n \in 0..h : 2 * n >= h /\ 2 * (n - 1) < h

\* r * ceil(10.5 + 68 * i + 31 * o)
StatedFee(r, i, o) == r * CeilOfHalves(21 + 2 * 68 * i + 2 * 31 * o)

\* The rate sendBitcoin selected with.
PickedRate == FeeRateOf(args.priority, feeEstimates.value)

\* What the selected UTXOs leave after the amount and the stated fee.
PickedRest ==
    Sum(Tuple([i \in 1..Len(picked.selectedUTXOs) |-> picked.selectedUTXOs[i].value]))
        - args.amount - StatedFee(PickedRate, Len(picked.selectedUTXOs), 2)

\* C14: the fee is r * ceil(10.5 + 68 * i + 31 * o), which is r * 209 for two
\* inputs and two outputs: estimateFee returns exactly this, and selectUTXOs
\* uses it, with o = 2 and i the number of UTXOs selected, as the fee before a
\* change below the dust limit is folded into it.
C14_FeeArithmetic ==
    /\ (op = "estimateFee" /\ returned.ok) =>
           /\ returned.value.feeRate = PickedRate
           /\ returned.value.fee =
                  StatedFee(PickedRate, args.inputCount, args.outputCount)
           /\ (args.inputCount = 2 /\ args.outputCount = 2) =>
                  returned.value.fee = PickedRate * 209
    /\ (op = "sendBitcoin" /\ ~picked.null) =>
           /\ PickedRest >= 0
           /\ IF PickedRest < DUST_LIMIT
              THEN /\ picked.change = 0
                   /\ picked.fee - PickedRest
                          = StatedFee(PickedRate, Len(picked.selectedUTXOs), 2)
              ELSE /\ picked.change = PickedRest
                   /\ picked.fee = StatedFee(PickedRate, Len(picked.selectedUTXOs), 2)

\* estimateFee has returned the fee of two inputs and two outputs.
C14_Witness ==
    /\ op = "estimateFee"
    /\ returned.ok
    /\ args.inputCount = 2
    /\ args.outputCount = 2
    /\ returned.value.fee = PickedRate * 209

\* C17: every request to the provider is bounded by the timeout: one that
\* the provider never answers is aborted, so that no call stays pending for
\* ever.
C17_BoundedByTimeout == (http = "pending") ~> (http # "pending")

\* C18: when the request for the fee estimates has failed or timed out, no
\* substituted fee estimates are returned or used: the operation does not
\* return normally, and no transaction is built or broadcast.
C18_FailedFetchExposed ==
    feeFetch = "failed" =>
        /\ ~feeEstimates.ok
        /\ ~returned.ok
        /\ ~rawTx.ok
        /\ call # "broadcastTransaction"

-----------------------------------------------------------------------------
(* Coin selection, run twice                                               *)

-----------------------------------------------------------------------------
(* src/utils/crypto.ts and src/utils/photoEntropy.ts: mnemonics, addresses *)

BIP84_PURPOSE == 84
BITCOIN_MAINNET_COIN == 0
BITCOIN_TESTNET_COIN == 1

MIN_IMAGE_SIZE == 10000

\* The k-th bit of a byte string, the highest bit of the first byte being
\* bit 0; past the end the bits are 0.
BitAt(bytes, k) ==
    IF k >= 8 * Len(bytes) THEN 0
    ELSE (bytes[(k \div 8) + 1] \div (2 ^ (7 - (k % 8)))) % 2

\* The number that the bits from, from + 1, .., from + width - 1 write.
RECURSIVE BitsAt(_, _, _)
BitsAt(bytes, from, width) ==
    IF width = 0 THEN 0
    ELSE 2 * BitsAt(bytes, from, width - 1) + BitAt(bytes, from + width - 1)

\* bech32.toWords(bytes): groups of 5 bits, the last padded with zeros.
toWords(bytes) ==
    Tuple([j \in 1..((8 * Len(bytes) + 4) \div 5) |-> BitsAt(bytes, 5 * (j - 1), 5)])

\* bech32.encode(prefix, words)
bech32_encode(prefix, words) ==
    ToLowerCase(prefix) \o <<49>>
    \o Tuple([i \in 1..Len(words) |-> BECH_ALPHABET[words[i] + 1]])
    \o Tuple([i \in 1..6 |->
                 BECH_ALPHABET[bechChecksum(ToLowerCase(prefix), words, BECH32_CONST)[i] + 1]])

encodeBech32Address(prefix, witnessVersion, witnessProgram) ==
    bech32_encode(prefix, <<witnessVersion>> \o toWords(witnessProgram))

\* mnemonicToSeed: PBKDF2 is not computed; what stands for the seed is a
\* value that the mnemonic determines.
mnemonicToSeed(mnemonic) == HashOf(TextEncode(mnemonic), 39)

\* HDKey.fromMasterSeed(seed).derive(path).publicKey: 33 bytes that the seed
\* and the path determine.
DerivedPublicKey(seed, path) == <<2>> \o HashOf(seed \o TextEncode(path), 32)

\* The coin types exchanged.
CoinTypeSwapped(network) ==
    IF network = Mainnet THEN BITCOIN_TESTNET_COIN ELSE BITCOIN_MAINNET_COIN

CoinTypeOf(network) ==
    IF network = Mainnet THEN BITCOIN_MAINNET_COIN ELSE BITCOIN_TESTNET_COIN

\* `m/${BIP84_PURPOSE}'/${coinType}'/${accountIndex}'/0/${addressIndex}`
DerivationPath(coinType, accountIndex, addressIndex) ==
    Str("m/") \o NumberToString(BIP84_PURPOSE) \o Str("'/") \o NumberToString(coinType)
    \o Str("'/") \o NumberToString(accountIndex) \o Str("'/0/")
    \o NumberToString(addressIndex)

\* deriveAddress from the derivation path on.
AddressAt(mnemonic, network, derivationPath) ==
    [address |-> encodeBech32Address(
                     PrefixOf(network), 0,
                     hash160(DerivedPublicKey(mnemonicToSeed(mnemonic), derivationPath))),
     derivationPath |-> derivationPath]

deriveAddress(mnemonic, network, accountIndex, addressIndex) ==
    AddressAt(mnemonic, network,
              DerivationPath(CoinTypeOf(network), accountIndex, addressIndex))

\* sha256: not computed; 32 bytes that the data determine.
sha256(data) == HashOf(data, 256)

\* bip39.entropyToMnemonic(entropy, wordlist) for 16 bytes: the indices of
\* the twelve words, 11 bits each, of the entropy and its 4 checksum bits.
entropyToMnemonic(entropy) ==
    Tuple([j \in 1..12 |-> BitsAt(entropy \o <<sha256(entropy)[1]>>, 11 * (j - 1), 11)])

\* crypto.ts generateMnemonic: bip39.generateMnemonic(wordlist, 128) draws 16
\* bytes with randomBytes, which throws when crypto.getRandomValues is not
\* defined.
generateMnemonic(secure, random) ==
    IF secure THEN Return(entropyToMnemonic(SubSeq(random, 1, 16)))
    ELSE Throw("crypto.getRandomValues must be defined")

generateEntropyFromBytes(data) == sha256(sha256(data))

\* getSystemEntropy: crypto.getRandomValues if defined, else Math.random.
getSystemEntropy(secure, random, pseudo) ==
    IF secure THEN [source |-> "crypto.getRandomValues", bytes |-> random]
    ELSE [source |-> "Math.random", bytes |-> pseudo]

combineEntropy(entropy1, entropy2) ==
    sha256(Tuple([i \in 1..32 |-> XorBits(entropy1[i], entropy2[i], 8)]))

\* generateMnemonicFromPhoto for an image of image.length base64 characters
\* that decode to image.bytes, after getSystemEntropy has returned system.
generateMnemonicFromPhoto(image, system) ==
    IF image.length = 0 \/ image.length < MIN_IMAGE_SIZE
    THEN Throw("Image too small for sufficient entropy. Please take a more detailed photo.")
    ELSE Return(entropyToMnemonic(
                    SubSeq(combineEntropy(generateEntropyFromBytes(image.bytes),
                                          system.bytes), 1, 16)))

-----------------------------------------------------------------------------
(* A wallet being made: a mnemonic is generated, addresses are derived     *)

MaxIndex == 2

\* Two mnemonics of the BIP-39 test vectors.
Mnemonics ==
    { Str("abandon abandon abandon abandon abandon abandon abandon abandon abandon abandon abandon about"),
      Str("legal winner thank year wave sausage worth useful legal winner thank yellow") }

\* Images: none, one of 9999 characters, two of 10000 and more.
Photos ==
    { [length |-> 0, bytes |-> <<>>],
      [length |-> MIN_IMAGE_SIZE - 1, bytes |-> <<255, 216, 255, 224>>],
      [length |-> MIN_IMAGE_SIZE, bytes |-> <<255, 216, 255, 224>>],
      [length |-> MIN_IMAGE_SIZE + 1, bytes |-> <<255, 216, 255, 225, 7>>] }

\* What the random number generators can give.
RandomValues == { HashOf(<<k>>, 1) : k \in 1..2 }

InitKeys ==
    /\ CodecIdle
    /\ SendIdle
    /\ TxIdle
    /\ SignerIdle
    /\ OnlineIdle
    /\ StoreIdle
    /\ NetIdle
    /\ keyPc = "start"
    /\ secureRng \in BOOLEAN
    /\ systemEntropy = JNull
    /\ minted = NoResult
    /\ keyArgs = JNull
    /\ derived = NoResult
    /\ derivedAgain = NoResult

\* crypto.ts generateMnemonic()
GenerateMnemonic ==
    /\ keyPc = "start"
    /\ \E random \in RandomValues : minted' = generateMnemonic(secureRng, random)
    /\ keyPc' = "generateMnemonic"
    /\ UNCHANGED <<secureRng, systemEntropy, keyArgs, derived, derivedAgain, besideKeys>>

\* photoEntropy.ts generateMnemonicFromPhoto(imageBase64)
GenerateMnemonicFromPhoto ==
    /\ keyPc = "start"
    /\ \E image \in Photos, random \in RandomValues, pseudo \in RandomValues :
         /\ systemEntropy' = IF image.length < MIN_IMAGE_SIZE THEN JNull
                             ELSE getSystemEntropy(secureRng, random, pseudo)
         /\ minted' = generateMnemonicFromPhoto(
                          image, getSystemEntropy(secureRng, random, pseudo))
    /\ keyPc' = "generateMnemonicFromPhoto"
    /\ UNCHANGED <<secureRng, keyArgs, derived, derivedAgain, besideKeys>>

\* deriveAddress(mnemonic, network, accountIndex, addressIndex)
DeriveAddress ==
    /\ keyPc = "start"
    /\ \E mnemonic \in Mnemonics, network \in {Mainnet, Testnet},
          accountIndex \in 0..MaxIndex, addressIndex \in 0..MaxIndex :
         keyArgs' = [mnemonic |-> mnemonic, network |-> network,
                     accountIndex |-> accountIndex, addressIndex |-> addressIndex]
    /\ derived' = Return(deriveAddress(keyArgs'.mnemonic, keyArgs'.network,
                                       keyArgs'.accountIndex, keyArgs'.addressIndex))
    /\ keyPc' = "derived"
    /\ UNCHANGED <<secureRng, systemEntropy, minted, derivedAgain, besideKeys>>

\* deriveAddress once more with the same arguments.
DeriveAddressAgain ==
    /\ keyPc = "derived"
    /\ derivedAgain' = Return(deriveAddress(keyArgs.mnemonic, keyArgs.network,
                                            keyArgs.accountIndex, keyArgs.addressIndex))
    /\ keyPc' = "derived again"
    /\ UNCHANGED <<secureRng, systemEntropy, minted, keyArgs, derived, besideKeys>>

NextKeys ==
    \/ GenerateMnemonic
    \/ GenerateMnemonicFromPhoto
    \/ DeriveAddress
    \/ DeriveAddressAgain

SpecKeys == InitKeys /\ [][NextKeys]_vars

-----------------------------------------------------------------------------
(* Properties of mnemonics and addresses                                   *)

\* The decimal digits of a number below 10.
OneDigit(n) == <<Str("0123456789")[n + 1]>>

\* m/84'/c'/account'/0/index with c = 0 for mainnet and c = 1 for testnet
StatedPath(network, account, index) ==
    Str("m/84'/") \o (IF network = Mainnet THEN Str("0") ELSE Str("1")) \o Str("'/")
    \o OneDigit(account) \o Str("'/0/") \o OneDigit(index)

C19_NoMnemonicWithoutSecureRng ==
    (~secureRng /\ keyPc \in {"generateMnemonic", "generateMnemonicFromPhoto"}) =>
        ~minted.ok

-----------------------------------------------------------------------------
(* The wallet store (walletStore.ts)                                        *)

SATOSHIS_PER_BTC == 100000000

\* How many store actions the application calls.
MaxCalls == 2

\* zustand set(partial): the fields of partial replace those of the state.
set(state, partial) ==
    [k \in DOMAIN state |-> IF k \in DOMAIN partial THEN partial[k] ELSE state[k]]

\* bip39.validateMnemonic for twelve words: the words are what
\* entropyToMnemonic gives for some entropy, checksum included.
validateMnemonic(mnemonic) ==
    \E random \in RandomValues : mnemonic = entropyToMnemonic(SubSeq(random, 1, 16))

\* What the random number generator gives while the store is used.
StoreRandomValues == { CHOOSE random \in RandomValues : TRUE }

\* The mnemonics the model generates and imports.
GeneratedMnemonics == { generateMnemonic(TRUE, random).value : random \in StoreRandomValues }

\* A mnemonic whose last word does not carry the checksum.
BadChecksum(mnemonic) == [mnemonic EXCEPT ![12] = (@ + 1) % 2048]

ImportedMnemonics ==
    GeneratedMnemonics \cup { BadChecksum(CHOOSE m \in GeneratedMnemonics : TRUE) }

\* bitcoinService.createWallet, the wallet it returns.
createWallet(mnemonic, network) ==
    LET derivedKey == deriveAddress(mnemonic, network, 0, 0)
    IN  [address |-> derivedKey.address, balance |-> 0, balanceUSD |-> 0,
         derivationPath |-> derivedKey.derivationPath]

\* createWallet for the mnemonics and the networks of the model, computed once.
WalletOf == [m \in GeneratedMnemonics, n \in {Mainnet, Testnet} |-> createWallet(m, n)]

\* (balance / SATOSHIS_PER_BTC) * usd, for balances of whole bitcoins.
BalanceUSD(balance, usd) == (balance \div SATOSHIS_PER_BTC) * usd

\* The network loadWallet takes from the saved preference.
LoadedNetwork(savedNetwork, current) ==
    IF savedNetwork = Testnet
    THEN [current EXCEPT !.type = Testnet, !.name = Str("Bitcoin Testnet"),
                         !.addressPrefix = Str("tb1"),
                         !.explorerUrl = Str("https://mempool.space/testnet")]
    ELSE current

\* The initial state less its network and its transactions.
walletCleared ==
    [isInitialized |-> FALSE, isLocked |-> TRUE, wallet |-> JNull, btcPrice |-> 0,
     priceChange24h |-> 0, isLoading |-> FALSE, error |-> JNull]

\* What set is given in the last statement of reset.
resetState == initialState

\* The networks setNetwork is called with: the two of NETWORKS and the one
\* of the store's test.
NetworkChoices ==
    { NETWORKS.mainnet, NETWORKS.testnet,
      [name |-> Str("Test"), type |-> Mainnet, addressPrefix |-> Str("bc1"),
       explorerUrl |-> Str("https://test.com")] }

\* One transaction of the wallet's history.
SomeTransaction == [txid |-> Str("ab"), type |-> Str("receive"), amount |-> SATOSHIS_PER_BTC]

\* Promise.all of getBalance and getTransactions: both values, or the error
\* of the one that failed.
DataReplies ==
    { Return([balance |-> 0, transactions |-> <<>>]),
      Return([balance |-> SATOSHIS_PER_BTC, transactions |-> <<SomeTransaction>>]),
      Throw("Failed to fetch balance from blockchain") }

\* priceService.getBTCPrice: a price fetched or cached, or the fallback.
PriceReplies == { [usd |-> 60000, usdChange24h |-> 2], [usd |-> 100000, usdChange24h |-> 0] }

\* bitcoinService.sendBitcoin: a transaction sent, or an error thrown.
SendReplies ==
    { Return([txid |-> Str("cd"), fee |-> 209]), Throw("Insufficient funds") }

\* keychainService.get: the value stored, or null when the keychain fails.
KeychainGet(key) == { keychain[key], JNull }

\* keychainService.save and delete: done, or not done when the keychain fails.
KeychainSave(key, value, done) ==
    IF done THEN [keychain EXCEPT ![key] = StrV(value)] ELSE keychain

KeychainDelete(key, done) == IF done THEN [keychain EXCEPT ![key] = JNull] ELSE keychain

\* A store action that has not returned, where it waits and its locals.
Call(name, at, local) == [name |-> name, pc |-> at, local |-> local]

\* The locals of a call that keeps none, called by the application or by
\* another store action.
NoLocals == [caller |-> "application"]

CalledBy(name) == [caller |-> name]

Waiting(i, name, at) == calls[i].name = name /\ calls[i].pc = at

Without(s, i) == SubSeq(s, 1, i - 1) \o SubSeq(s, i + 1, Len(s))

Returned(name) == [name |-> name, ok |-> TRUE]

Rejected(name) == [name |-> name, ok |-> FALSE]

\* The call has returned; its arguments and locals are kept to tell what it
\* was called with.
ReturnedBy(c) == [name |-> c.name, ok |-> TRUE, local |-> c.local]

\* The wallet with the balance fetched.
WithBalance(wallet, balance, usd) ==
    [wallet EXCEPT !.balance = balance, !.balanceUSD = BalanceUSD(balance, usd)]

InitStore ==
    /\ CodecIdle
    /\ SendIdle
    /\ TxIdle
    /\ SignerIdle
    /\ OnlineIdle
    /\ KeysIdle
    /\ NetIdle
    /\ store = initialState
    /\ keychain \in { EmptyKeychain } \cup
                    { [mnemonic |-> StrV(m), network |-> StrV(n)] :
                          m \in GeneratedMnemonics, n \in {Mainnet, Testnet} }
    /\ currentNetwork = Mainnet
    /\ calls = <<>>
    /\ started = 0
    /\ finished = NoneFinished
    /\ afterReset = FALSE

\* The application calls a store action, MaxCalls times at most.
Called ==
    /\ started < MaxCalls
    /\ started' = started + 1

\* clearError
ClearError ==
    /\ Called
    /\ store' = set(store, [error |-> JNull])
    /\ finished' = Returned("clearError")
    /\ UNCHANGED <<keychain, currentNetwork, calls, afterReset, besideStore>>

\* lock
Lock ==
    /\ Called
    /\ store' = set(store, [isLocked |-> TRUE])
    /\ finished' = Returned("lock")
    /\ UNCHANGED <<keychain, currentNetwork, calls, afterReset, besideStore>>

\* unlock
Unlock ==
    /\ Called
    /\ store' = set(store, [isLocked |-> FALSE])
    /\ finished' = Returned("unlock")
    /\ UNCHANGED <<keychain, currentNetwork, calls, afterReset, besideStore>>

\* createWallet, to its first await: the mnemonic is generated, or
\* generateMnemonic throws and the catch block records the error.
CreateWallet ==
    \E minting \in { generateMnemonic(secure, random) :
                         secure \in BOOLEAN, random \in StoreRandomValues } :
        /\ Called
        /\ IF minting.ok
           THEN /\ store' = set(store, [isLoading |-> TRUE, error |-> JNull])
                /\ currentNetwork' = store.network.type
                /\ calls' = Append(calls,
                                Call("createWallet", "save MNEMONIC",
                                     [mnemonic |-> minting.value, network |-> store.network,
                                      wallet |-> WalletOf[minting.value, store.network.type]]))
                /\ finished' = NoneFinished
           ELSE /\ store' = set(store, [isLoading |-> FALSE,
                                        error |-> StrV(Str(minting.error))])
                /\ finished' = Rejected("createWallet")
                /\ UNCHANGED <<currentNetwork, calls>>
        /\ UNCHANGED <<keychain, besideStore>>
        /\ afterReset' = FALSE

CreateWalletSavedMnemonic ==
    \E i \in DOMAIN calls, done \in BOOLEAN :
        /\ Waiting(i, "createWallet", "save MNEMONIC")
        /\ keychain' = KeychainSave("mnemonic", calls[i].local.mnemonic, done)
        /\ calls' = [calls EXCEPT ![i].pc = "save NETWORK"]
        /\ finished' = NoneFinished
        /\ UNCHANGED <<store, currentNetwork, started, afterReset, besideStore>>

\* createWallet from the second save on: the wallet is set, refreshPrice is
\* called and not awaited.
CreateWalletSavedNetwork ==
    \E i \in DOMAIN calls, done \in BOOLEAN :
        /\ Waiting(i, "createWallet", "save NETWORK")
        /\ keychain' = KeychainSave("network", calls[i].local.network.type, done)
        /\ store' = set(store, [isInitialized |-> TRUE, isLocked |-> FALSE,
                                isLoading |-> FALSE,
                                wallet |-> WithBalance(calls[i].local.wallet, 0, 0),
                                transactions |-> <<>>])
        /\ calls' = Append(Without(calls, i),
                           Call("refreshPrice", "getBTCPrice", CalledBy("createWallet")))
        /\ finished' = ReturnedBy(calls[i])
        /\ UNCHANGED <<currentNetwork, started, afterReset, besideStore>>

\* importWallet, to its first await, or to the throw for an invalid mnemonic.
ImportWallet ==
    \E mnemonic \in ImportedMnemonics :
        /\ Called
        /\ IF validateMnemonic(mnemonic)
           THEN /\ store' = set(store, [isLoading |-> TRUE, error |-> JNull])
                /\ currentNetwork' = store.network.type
                /\ calls' = Append(calls,
                                Call("importWallet", "save MNEMONIC",
                                     [mnemonic |-> mnemonic, network |-> store.network,
                                      wallet |-> WalletOf[mnemonic, store.network.type]]))
                /\ finished' = NoneFinished
           ELSE /\ store' = set(store, [isLoading |-> FALSE,
                                        error |-> StrV(Str("Invalid mnemonic phrase"))])
                /\ finished' = Rejected("importWallet")
                /\ UNCHANGED <<currentNetwork, calls>>
        /\ UNCHANGED <<keychain, besideStore>>
        /\ afterReset' = FALSE

ImportWalletSavedMnemonic ==
    \E i \in DOMAIN calls, done \in BOOLEAN :
        /\ Waiting(i, "importWallet", "save MNEMONIC")
        /\ keychain' = KeychainSave("mnemonic", calls[i].local.mnemonic, done)
        /\ calls' = [calls EXCEPT ![i].pc = "save NETWORK"]
        /\ finished' = NoneFinished
        /\ UNCHANGED <<store, currentNetwork, started, afterReset, besideStore>>

ImportWalletSavedNetwork ==
    \E i \in DOMAIN calls, done \in BOOLEAN :
        /\ Waiting(i, "importWallet", "save NETWORK")
        /\ keychain' = KeychainSave("network", calls[i].local.network.type, done)
        /\ calls' = [calls EXCEPT ![i].pc = "fetch"]
        /\ finished' = NoneFinished
        /\ UNCHANGED <<store, currentNetwork, started, afterReset, besideStore>>

\* The store after the set that follows a successful fetch in importWallet.
Imported(state, wallet, data, priceData) ==
    set(state, [isInitialized |-> TRUE, isLocked |-> FALSE, isLoading |-> FALSE,
                wallet |-> WithBalance(wallet, data.balance, priceData.usd),
                transactions |-> data.transactions,
                btcPrice |-> priceData.usd,
                priceChange24h |-> priceData.usdChange24h])

\* importWallet from Promise.all on.
ImportWalletFetched ==
    \E i \in DOMAIN calls, data \in DataReplies, priceData \in PriceReplies :
        /\ Waiting(i, "importWallet", "fetch")
        /\ IF data.ok
           THEN /\ store' = Imported(store, calls[i].local.wallet, data.value, priceData)
                /\ finished' = ReturnedBy(calls[i])
           ELSE /\ store' = set(store, [isLoading |-> FALSE,
                                        error |-> StrV(Str(data.error))])
                /\ finished' = Rejected("importWallet")
        /\ calls' = Without(calls, i)
        /\ UNCHANGED <<keychain, currentNetwork, started, afterReset, besideStore>>

\* What loadWallet sets when the keychain holds no mnemonic.
NotInitialized(state) ==
    set(state, [isInitialized |-> FALSE, isLocked |-> TRUE, isLoading |-> FALSE])

\* loadWallet, to its first await.
LoadWallet ==
    /\ Called
    /\ store' = set(store, [isLoading |-> TRUE, error |-> JNull])
    /\ calls' = Append(calls, Call("loadWallet", "get MNEMONIC", NoLocals))
    /\ finished' = NoneFinished
    /\ UNCHANGED <<keychain, currentNetwork, besideStore>>
    /\ afterReset' = FALSE

LoadWalletGotMnemonic ==
    \E i \in DOMAIN calls, mnemonic \in KeychainGet("mnemonic") :
        /\ Waiting(i, "loadWallet", "get MNEMONIC")
        /\ IF mnemonic = JNull
           THEN /\ store' = NotInitialized(store)
                /\ calls' = Without(calls, i)
                /\ finished' = Returned("loadWallet")
           ELSE /\ calls' = [calls EXCEPT ![i] = Call("loadWallet", "get NETWORK",
                                                      [mnemonic |-> mnemonic.v])]
                /\ finished' = NoneFinished
                /\ UNCHANGED store
        /\ UNCHANGED <<keychain, currentNetwork, started, afterReset, besideStore>>

LoadWalletGotNetwork ==
    \E i \in DOMAIN calls, savedNetwork \in KeychainGet("network") :
        /\ Waiting(i, "loadWallet", "get NETWORK")
        /\ LET network == LoadedNetwork(IF savedNetwork = JNull THEN <<>> ELSE savedNetwork.v,
                                        store.network)
           IN  /\ currentNetwork' = network.type
               /\ calls' = [calls EXCEPT ![i] =
                               Call("loadWallet", "fetch",
                                    [mnemonic |-> calls[i].local.mnemonic,
                                     network |-> network,
                                     wallet |-> WalletOf[calls[i].local.mnemonic,
                                                         network.type]])]
        /\ finished' = NoneFinished
        /\ UNCHANGED <<store, keychain, started, afterReset, besideStore>>

\* loadWallet from Promise.all on: the wallet is set, or the catch block
\* reads the mnemonic again.
LoadWalletFetched ==
    \E i \in DOMAIN calls, data \in DataReplies, priceData \in PriceReplies :
        /\ Waiting(i, "loadWallet", "fetch")
        /\ IF data.ok
           THEN /\ store' = set(Imported(store, calls[i].local.wallet, data.value, priceData),
                                [network |-> calls[i].local.network])
                /\ calls' = Without(calls, i)
                /\ finished' = Returned("loadWallet")
           ELSE /\ calls' = [calls EXCEPT ![i] = Call("loadWallet", "get MNEMONIC again",
                                                      NoLocals)]
                /\ finished' = NoneFinished
                /\ UNCHANGED store
        /\ UNCHANGED <<keychain, currentNetwork, started, afterReset, besideStore>>

\* The catch block of loadWallet.
LoadWalletGotMnemonicAgain ==
    \E i \in DOMAIN calls, mnemonic \in KeychainGet("mnemonic") :
        /\ Waiting(i, "loadWallet", "get MNEMONIC again")
        /\ IF mnemonic = JNull
           THEN /\ store' = NotInitialized(store)
                /\ UNCHANGED currentNetwork
           ELSE /\ store' = set(store,
                                [isInitialized |-> TRUE, isLocked |-> FALSE,
                                 isLoading |-> FALSE,
                                 wallet |-> WithBalance(
                                                WalletOf[mnemonic.v, store.network.type], 0, 0),
                                 transactions |-> <<>>,
                                 error |-> StrV(Str(
                                     "Failed to fetch blockchain data. Pull to refresh."))])
                /\ currentNetwork' = store.network.type
        /\ calls' = Without(calls, i)
        /\ finished' = Returned("loadWallet")
        /\ UNCHANGED <<keychain, started, afterReset, besideStore>>

\* refreshBalance of a call that captured wallet, btcPrice and network, once
\* its Promise.all has settled with data.
Refreshed(state, local, data) ==
    IF data.ok
    THEN set(state, [isLoading |-> FALSE,
                     wallet |-> WithBalance(local.wallet, data.value.balance, local.btcPrice),
                     transactions |-> data.value.transactions])
    ELSE set(state, [isLoading |-> FALSE,
                     error |-> StrV(Str("Failed to refresh balance. Please try again."))])

\* What refreshBalance captures when it is called.
Captured(state) == [wallet |-> state.wallet, btcPrice |-> state.btcPrice,
                    network |-> state.network]

\* refreshBalance, to its await, or to the return when there is no wallet.
RefreshBalance ==
    /\ Called
    /\ IF store.wallet = JNull
       THEN /\ finished' = Returned("refreshBalance")
            /\ UNCHANGED <<store, calls>>
       ELSE /\ store' = set(store, [isLoading |-> TRUE, error |-> JNull])
            /\ calls' = Append(calls, Call("refreshBalance", "fetch", Captured(store)))
            /\ finished' = NoneFinished
    /\ UNCHANGED <<keychain, currentNetwork, afterReset, besideStore>>

RefreshBalanceFetched ==
    \E i \in DOMAIN calls, data \in DataReplies :
        /\ Waiting(i, "refreshBalance", "fetch")
        /\ store' = Refreshed(store, calls[i].local, data)
        /\ calls' = Without(calls, i)
        /\ finished' = Returned("refreshBalance")
        /\ UNCHANGED <<keychain, currentNetwork, started, afterReset, besideStore>>

\* refreshPrice, to its await.
RefreshPrice ==
    /\ Called
    /\ calls' = Append(calls, Call("refreshPrice", "getBTCPrice", NoLocals))
    /\ finished' = NoneFinished
    /\ UNCHANGED <<store, keychain, currentNetwork, afterReset, besideStore>>

\* refreshPrice from the price on; getBTCPrice does not throw.
RefreshPriceGot ==
    \E i \in DOMAIN calls, priceData \in PriceReplies :
        /\ Waiting(i, "refreshPrice", "getBTCPrice")
        /\ store' = set(store,
                        [btcPrice |-> priceData.usd,
                         priceChange24h |-> priceData.usdChange24h,
                         wallet |-> IF store.wallet = JNull THEN JNull
                                    ELSE [store.wallet EXCEPT !.balanceUSD =
                                             BalanceUSD(store.wallet.balance, priceData.usd)]])
        /\ calls' = Without(calls, i)
        /\ finished' = Returned("refreshPrice")
        /\ UNCHANGED <<keychain, currentNetwork, started, afterReset, besideStore>>

\* setNetwork, to its first await.
SetNetwork ==
    \E network \in NetworkChoices :
        /\ Called
        /\ store' = set(store, [isLoading |-> TRUE, error |-> JNull])
        /\ currentNetwork' = network.type
        /\ calls' = Append(calls, Call("setNetwork", "save NETWORK", [network |-> network]))
        /\ finished' = NoneFinished
        /\ UNCHANGED <<keychain, afterReset, besideStore>>

SetNetworkSaved ==
    \E i \in DOMAIN calls, done \in BOOLEAN :
        /\ Waiting(i, "setNetwork", "save NETWORK")
        /\ keychain' = KeychainSave("network", calls[i].local.network.type, done)
        /\ calls' = [calls EXCEPT ![i].pc = "get MNEMONIC"]
        /\ finished' = NoneFinished
        /\ UNCHANGED <<store, currentNetwork, started, afterReset, besideStore>>

\* setNetwork from the mnemonic on: without one the network is set and the
\* action returns.
SetNetworkGotMnemonic ==
    \E i \in DOMAIN calls, mnemonic \in KeychainGet("mnemonic") :
        /\ Waiting(i, "setNetwork", "get MNEMONIC")
        /\ IF mnemonic = JNull
           THEN /\ store' = set(store, [network |-> calls[i].local.network,
                                        isLoading |-> FALSE])
                /\ calls' = Without(calls, i)
                /\ finished' = ReturnedBy(calls[i])
                /\ UNCHANGED currentNetwork
           ELSE /\ currentNetwork' = calls[i].local.network.type
                /\ calls' = [calls EXCEPT ![i] =
                                Call("setNetwork", "fetch",
                                     [network |-> calls[i].local.network,
                                      wallet |-> WalletOf[mnemonic.v,
                                                          calls[i].local.network.type]])]
                /\ finished' = NoneFinished
                /\ UNCHANGED store
        /\ UNCHANGED <<keychain, started, afterReset, besideStore>>

SetNetworkFetched ==
    \E i \in DOMAIN calls, data \in DataReplies :
        /\ Waiting(i, "setNetwork", "fetch")
        /\ IF data.ok
           THEN store' = set(store,
                             [network |-> calls[i].local.network,
                              isLoading |-> FALSE,
                              wallet |-> WithBalance(calls[i].local.wallet,
                                                     data.value.balance, store.btcPrice),
                              transactions |-> data.value.transactions])
           ELSE store' = set(store,
                             [isLoading |-> FALSE,
                              error |-> StrV(Str(
                                  "Failed to switch network. Please try again."))])
        /\ calls' = Without(calls, i)
        /\ finished' = ReturnedBy(calls[i])
        /\ UNCHANGED <<keychain, currentNetwork, started, afterReset, besideStore>>

\* The store's sendBitcoin, to its first await.
StoreSendBitcoin ==
    /\ Called
    /\ store' = set(store, [isLoading |-> TRUE, error |-> JNull])
    /\ calls' = Append(calls, Call("sendBitcoin", "get MNEMONIC", [network |-> store.network]))
    /\ finished' = NoneFinished
    /\ UNCHANGED <<keychain, currentNetwork, afterReset, besideStore>>

StoreSendGotMnemonic ==
    \E i \in DOMAIN calls, mnemonic \in KeychainGet("mnemonic") :
        /\ Waiting(i, "sendBitcoin", "get MNEMONIC")
        /\ IF mnemonic = JNull
           THEN /\ store' = set(store, [isLoading |-> FALSE,
                                        error |-> StrV(Str("Wallet not found"))])
                /\ calls' = Without(calls, i)
                /\ finished' = Rejected("sendBitcoin")
           ELSE /\ calls' = [calls EXCEPT ![i].pc = "sendBitcoin"]
                /\ finished' = NoneFinished
                /\ UNCHANGED store
        /\ UNCHANGED <<keychain, currentNetwork, started, afterReset, besideStore>>

\* sendBitcoin from bitcoinService.sendBitcoin on: refreshBalance is called
\* and awaited, or the catch block records the error.
StoreSendSent ==
    \E i \in DOMAIN calls, sent \in SendReplies :
        /\ Waiting(i, "sendBitcoin", "sendBitcoin")
        /\ IF sent.ok
           THEN /\ store' = IF store.wallet = JNull THEN store
                            ELSE set(store, [isLoading |-> TRUE, error |-> JNull])
                /\ calls' = [calls EXCEPT ![i] =
                                Call("sendBitcoin", "refreshBalance", Captured(store))]
                /\ finished' = NoneFinished
           ELSE /\ store' = set(store, [isLoading |-> FALSE, error |-> StrV(Str(sent.error))])
                /\ calls' = Without(calls, i)
                /\ finished' = Rejected("sendBitcoin")
        /\ UNCHANGED <<keychain, currentNetwork, started, afterReset, besideStore>>

StoreSendRefreshed ==
    \E i \in DOMAIN calls, data \in DataReplies :
        /\ Waiting(i, "sendBitcoin", "refreshBalance")
        /\ store' = set(IF calls[i].local.wallet = JNull THEN store
                        ELSE Refreshed(store, calls[i].local, data),
                        [isLoading |-> FALSE])
        /\ calls' = Without(calls, i)
        /\ finished' = Returned("sendBitcoin")
        /\ UNCHANGED <<keychain, currentNetwork, started, afterReset, besideStore>>

\* reset, to its first await.
Reset ==
    /\ Called
    /\ calls' = Append(calls, Call("reset", "delete MNEMONIC", NoLocals))
    /\ finished' = NoneFinished
    /\ UNCHANGED <<store, keychain, currentNetwork, afterReset, besideStore>>

ResetDeletedMnemonic ==
    \E i \in DOMAIN calls, done \in BOOLEAN :
        /\ Waiting(i, "reset", "delete MNEMONIC")
        /\ keychain' = KeychainDelete("mnemonic", done)
        /\ calls' = [calls EXCEPT ![i].pc = "delete NETWORK"]
        /\ finished' = NoneFinished
        /\ UNCHANGED <<store, currentNetwork, started, afterReset, besideStore>>

\* reset from the second delete on: set(initialState), and the action returns.
ResetDeletedNetwork ==
    \E i \in DOMAIN calls, done \in BOOLEAN :
        /\ Waiting(i, "reset", "delete NETWORK")
        /\ keychain' = KeychainDelete("network", done)
        /\ store' = set(store, resetState)
        /\ calls' = Without(calls, i)
        /\ finished' = Returned("reset")
        /\ UNCHANGED <<currentNetwork, started, besideStore>>
        /\ afterReset' = \A j \in DOMAIN calls' :
                             calls'[j].name \notin {"createWallet", "importWallet"}

NextStore ==
    \/ ClearError
    \/ Lock
    \/ Unlock
    \/ CreateWallet
    \/ CreateWalletSavedMnemonic
    \/ CreateWalletSavedNetwork
    \/ ImportWallet
    \/ ImportWalletSavedMnemonic
    \/ ImportWalletSavedNetwork
    \/ ImportWalletFetched
    \/ LoadWallet
    \/ LoadWalletGotMnemonic
    \/ LoadWalletGotNetwork
    \/ LoadWalletFetched
    \/ LoadWalletGotMnemonicAgain
    \/ RefreshBalance
    \/ RefreshBalanceFetched
    \/ RefreshPrice
    \/ RefreshPriceGot
    \/ SetNetwork
    \/ SetNetworkSaved
    \/ SetNetworkGotMnemonic
    \/ SetNetworkFetched
    \/ StoreSendBitcoin
    \/ StoreSendGotMnemonic
    \/ StoreSendSent
    \/ StoreSendRefreshed
    \/ Reset
    \/ ResetDeletedMnemonic
    \/ ResetDeletedNetwork

SpecStore == InitStore /\ [][NextStore]_vars

\* C20: in the state in which reset returns, whatever store actions were
\* called before it and whichever of them have not returned yet, the store
\* has isInitialized = false, isLocked = true, wallet = null,
\* network = DEFAULT_NETWORK and no transactions.
C20_ResetRestoresInitialState ==
    finished.name = "reset" =>
        /\ store.isInitialized = FALSE
        /\ store.isLocked = TRUE
        /\ store.wallet = JNull
        /\ store.network = DEFAULT_NETWORK
        /\ store.transactions = <<>>

\* reset returns after createWallet has set a wallet, while the refreshPrice
\* that createWallet called has not returned yet.
C20_Witness ==
    /\ finished.name = "reset"
    /\ \E i \in DOMAIN calls : calls[i].local = CalledBy("createWallet")

\* C21: in the state in which setNetwork(n) returns, the network of the
\* store is n, with or without a wallet, whether the fetch for the new
\* network succeeded or failed.
C21_SetNetworkSetsNetwork ==
    finished.name = "setNetwork" => store.network = finished.local.network

\* C29: once reset has returned, the store holds no wallet and is not
\* initialized until createWallet, importWallet or loadWallet is called
\* again, whatever refreshBalance, refreshPrice, setNetwork, loadWallet or
\* sendBitcoin calls were waiting when reset ran and return afterwards.
C29_ResetIsFinal ==
    afterReset => store.wallet = JNull /\ store.isInitialized = FALSE

\* C30: in the state in which createWallet or importWallet returns with the
\* store initialized and a wallet set, the keychain holds, under the
\* mnemonic key, the mnemonic the wallet was derived from.
C30_MnemonicStored ==
    (/\ finished.name \in {"createWallet", "importWallet"}
     /\ finished.ok
     /\ store.isInitialized
     /\ store.wallet # JNull)
        => keychain.mnemonic = StrV(finished.local.mnemonic)

-----------------------------------------------------------------------------
(* Coin selection: which UTXOs, and where their value goes                 *)

\* The values of the first k entries of a list, added up.
RECURSIVE SumOfFirst(_, _)
SumOfFirst(utxos, k) == IF k = 0 THEN 0 ELSE SumOfFirst(utxos, k - 1) + utxos[k].value

\* feeRate * ceil(10.5 + 68*k + 31*2)
FeeWithChange(feeRate, k) == feeRate * CeilOfHalves(21 + 2 * 68 * k + 2 * 62)

\* The j largest values of a list, added up: the largest sum j of its
\* entries can have.
LargestSum(utxos, j) ==
    LET sums == { SumOfFirst(Tuple([p \in 1..j |-> utxos[pick[p]]]), j) :
                      pick \in { f \in [1..j -> DOMAIN utxos] :
                                     \A a, b \in 1..j : a # b => f[a] # f[b] } }
    IN  CHOOSE m \in sums : \A n \in sums : n <= m

\* selected is made of k UTXOs of the list, largest first, and no UTXO left
\* out has a larger value than one taken.
LargestFirst(selected, utxos) ==
    /\ \A p \in DOMAIN selected : \E i \in DOMAIN utxos : utxos[i] = selected[p]
    /\ \A p, q \in DOMAIN selected : p < q => /\ selected[p] # selected[q]
                                              /\ selected[p].value >= selected[q].value
    /\ \A i \in DOMAIN utxos :
           (\A p \in DOMAIN selected : selected[p] # utxos[i])
               => \A p \in DOMAIN selected : utxos[i].value <= selected[p].value

\* selectUTXOs has been called and has returned a selection.
SelectionReturned == sendPc \in {"selected", "selected again"} /\ ~selection.null

\* C22: a selection that selectUTXOs returns is made of the k largest UTXOs
\* of the list, largest first, k being the smallest count for which the sum
\* of the k largest values less the amount less feeRate * ceil(10.5 + 68k +
\* 62) is not negative.
C22_GreedyLargestFirst ==
    SelectionReturned =>
        LET k == Len(selection.selectedUTXOs)
        IN  /\ k \in 1..Len(walletUtxos)
            /\ LargestFirst(selection.selectedUTXOs, walletUtxos)
            /\ LargestSum(walletUtxos, k) - amount - FeeWithChange(rate, k) >= 0
            /\ \A j \in 1..(k - 1) :
                   LargestSum(walletUtxos, j) - amount - FeeWithChange(rate, j) < 0

\* Two UTXOs were needed, and the list had the smaller one first.
C22_Witness ==
    /\ SelectionReturned
    /\ Len(selection.selectedUTXOs) = 2
    /\ walletUtxos[1].value < walletUtxos[2].value

\* C23: in a selection that selectUTXOs returns, the values of the selected
\* UTXOs add up to the amount, the fee and the change; the change is not
\* negative and the fee is at least feeRate * ceil(10.5 + 68k + 62).
C23_ValueConserved ==
    SelectionReturned =>
        LET k == Len(selection.selectedUTXOs)
        IN  /\ SumOfFirst(selection.selectedUTXOs, k)
                   = amount + selection.fee + selection.change
            /\ selection.change >= 0
            /\ selection.fee >= FeeWithChange(rate, k)

\* Change below the dust limit was folded into the fee.
C23_Witness ==
    /\ SelectionReturned
    /\ selection.change = 0
    /\ selection.fee > FeeWithChange(rate, Len(selection.selectedUTXOs))

-----------------------------------------------------------------------------
(* sendBitcoin: what comes before the broadcast                            *)

\* The request that broadcasts the transaction of sendBitcoin has been sent.
BroadcastSent == op = "sendBitcoin" /\ rawTx.ok

\* This step sends it.
BroadcastStarts ==
    /\ op = "sendBitcoin"
    /\ call # "broadcastTransaction"
    /\ call' = "broadcastTransaction"

\* The errors of the steps before the broadcast.
StepErrors ==
    { "Invalid recipient address", "Amount too small", "No UTXOs available",
      "Insufficient funds" }

\* sendBitcoin has thrown before anything was broadcast.
ThrownBeforeBroadcast == op = "sendBitcoin" /\ ~returned.ok /\ returned # NoResult /\ ~rawTx.ok

\* In every state of a sendBitcoin: a broadcast was sent only for a valid
\* address, an amount not below the dust limit, UTXOs fetched, a selection
\* made and a transaction signed; a failed step has made the call throw its
\* error, the earlier step first, with nothing broadcast.
SendInOrder ==
    op = "sendBitcoin" =>
        /\ BroadcastSent =>
               /\ isValidAddress(args.toAddress)
               /\ args.amount >= DUST_LIMIT
               /\ Len(fetched) > 0
               /\ ~picked.null
        /\ ~isValidAddress(args.toAddress)
               => returned = Throw("Invalid recipient address") /\ http = "none"
        /\ isValidAddress(args.toAddress) /\ args.amount < DUST_LIMIT
               => returned = Throw("Amount too small") /\ http = "none"
        /\ ThrownBeforeBroadcast => call # "broadcastTransaction"
        /\ ~returned.ok /\ returned.error \in StepErrors => ~BroadcastSent
        /\ call = "buildAndSignTransaction" => Len(fetched) > 0 /\ ~picked.null
        /\ picked.null /\ feeEstimates # NoResult
               => returned = Throw("Insufficient funds") /\ ~BroadcastSent

\* C24: sendBitcoin sends the broadcast request once at most, in a step in
\* which signing has succeeded, after the address check, the amount check,
\* a fetch of UTXOs that was not empty and a selection that was not null;
\* when one of these steps fails the call throws and nothing is broadcast.
C24_BroadcastOnlyAfterChecks ==
    /\ []SendInOrder
    /\ [][BroadcastStarts =>
             /\ ~BroadcastSent
             /\ returned = NoResult
             /\ call = "buildAndSignTransaction"
             /\ rawTx'.ok]_vars

\* A transaction has been broadcast and sendBitcoin has returned its txid.
C24_Witness == BroadcastSent /\ returned.ok /\ call = "none"

-----------------------------------------------------------------------------
(* src/services/networkService.ts: the subscribers of the network status   *)

MaxSubscriptions == 4

\* The callbacks the screens subscribe.
Callbacks == {"onStatus", "onBanner"}

\* NetInfo.addEventListener has returned a subscription.
Listening == [null |-> FALSE]

InitNet ==
    /\ CodecIdle
    /\ SendIdle
    /\ TxIdle
    /\ SignerIdle
    /\ OnlineIdle
    /\ KeysIdle
    /\ StoreIdle
    /\ subscription = Null
    /\ listeners = {}
    /\ unsubscribes = <<>>
    /\ netInfo = 0

\* networkService.subscribe(callback)
Subscribe ==
    /\ Len(unsubscribes) < MaxSubscriptions
    /\ \E callback \in Callbacks :
         /\ listeners' = listeners \cup {callback}
         /\ unsubscribes' = Append(unsubscribes, [callback |-> callback, called |-> FALSE])
    /\ IF subscription = Null
       THEN subscription' = Listening /\ netInfo' = netInfo + 1
       ELSE UNCHANGED <<subscription, netInfo>>
    /\ UNCHANGED besideNet

\* A function that subscribe returned is called, for the first time or again.
Unsubscribe ==
    /\ \E i \in DOMAIN unsubscribes :
         /\ listeners' = listeners \ {unsubscribes[i].callback}
         /\ unsubscribes' = [unsubscribes EXCEPT ![i].called = TRUE]
    /\ IF listeners' = {} /\ subscription # Null
       THEN subscription' = Null /\ netInfo' = netInfo - 1
       ELSE UNCHANGED <<subscription, netInfo>>
    /\ UNCHANGED besideNet

NextNet == Subscribe \/ Unsubscribe

SpecNet == InitNet /\ [][NextNet]_vars

\* C28: after any subscribe calls and calls of the functions they returned,
\* NetInfo holds at most one event listener of the service, and holds one
\* exactly when some subscription has not been unsubscribed.
C28_OneListenerWhileSubscribed ==
    /\ netInfo <= 1
    /\ netInfo = 1 <=> \E i \in DOMAIN unsubscribes : ~unsubscribes[i].called

=============================================================================
